---- MODULE Spec2Model ----
(***************************************************************************)
(* YieldBasisAMM (src/amm_contract.py): a constant-product pool of LBTC    *)
(* and LUSDt with a tracked debt position, ybBTC receipts, LP shares and   *)
(* a flash-loan table.  Every quantity is a decimal.Decimal computed under *)
(* the module-wide context (round-half-even to a fixed number of           *)
(* significant digits), so the arithmetic below is decimal floating point  *)
(* with that rounding rule, not exact rational arithmetic.                 *)
(***************************************************************************)
EXTENDS Integers, Sequences, FiniteSets, TLC

(***************************************************************************)
(* Bounds.                                                                 *)
(*   Prec      significant digits of the decimal context.  The source sets *)
(*             28; the model runs the same rounding rule at a reduced      *)
(*             number of digits so that coefficients fit machine integers. *)
(*   MaxSteps  number of ledger calls in one behaviour.                    *)
(*   MaxLoans  number of loan identifiers that can be issued.              *)
(***************************************************************************)
Prec == 3
MaxSteps == 3
MaxLoans == 2

(***************************************************************************)
(* decimal.Decimal: a value is c * 10^e, kept in canonical form (c has no  *)
(* trailing zero, zero is <<0, 0>>).  Decimal compares by numeric value,   *)
(* so the canonical form loses nothing the program can observe.            *)
(***************************************************************************)
Pow10(k) == <<1, 10, 100, 1000, 10000, 100000, 1000000, 10000000, 100000000, 1000000000>>[k + 1]

RECURSIVE Digits(_)
Digits(n) == IF n < 10 THEN 1 ELSE 1 + Digits(n \div 10)

Sign(n) == IF n < 0 THEN -1 ELSE IF n > 0 THEN 1 ELSE 0

Mag(n) == IF n < 0 THEN -n ELSE n

RECURSIVE Norm(_, _)
Norm(c, e) ==
    IF c = 0 THEN [c |-> 0, e |-> 0]
    ELSE IF c % 10 = 0 THEN Norm(c \div 10, e + 1)
    ELSE [c |-> c, e |-> e]

\* Decimal(str): construction is exact, the context does not round it.
Dec(c, e) == Norm(c, e)

Zero == Dec(0, 0)

One == Dec(1, 0)

\* Context rounding (ROUND_HALF_EVEN) of the non-negative magnitude
\* (n + f) * 10^e, where 0 < f < 1 when sticky and f = 0 otherwise.
RoundHE(n, e, sticky) ==
    IF n < Pow10(Prec)
    THEN Norm(n, e)
    ELSE LET d    == Digits(n) - Prec
             q    == n \div Pow10(d)
             r    == n % Pow10(d)
             half == 5 * Pow10(d - 1)
             up   == \/ r > half
                     \/ r = half /\ (sticky \/ q % 2 = 1)
         IN  Norm(IF up THEN q + 1 ELSE q, e + d)

DNeg(a) == [c |-> -a.c, e |-> a.e]

WithSign(s, m) == IF s < 0 THEN DNeg(m) ELSE m

\* Position of the leading digit: the value lies in [10^Adj, 10^(Adj+1)).
Adj(a) == Digits(Mag(a.c)) + a.e - 1

\* Numeric comparison of magnitudes, -1 / 0 / 1.
MagCmp(a, b) ==
    IF a.c = 0 /\ b.c = 0 THEN 0
    ELSE IF a.c = 0 THEN -1
    ELSE IF b.c = 0 THEN 1
    ELSE IF Adj(a) # Adj(b) THEN (IF Adj(a) < Adj(b) THEN -1 ELSE 1)
    ELSE LET da == Digits(Mag(a.c))
             db == Digits(Mag(b.c))
             w  == IF da > db THEN da ELSE db
             x  == Mag(a.c) * Pow10(w - da)
             y  == Mag(b.c) * Pow10(w - db)
         IN  IF x < y THEN -1 ELSE IF x > y THEN 1 ELSE 0

DCmp(a, b) ==
    IF Sign(a.c) # Sign(b.c) THEN (IF Sign(a.c) < Sign(b.c) THEN -1 ELSE 1)
    ELSE IF Sign(a.c) >= 0 THEN MagCmp(a, b)
    ELSE MagCmp(b, a)

DLt(a, b) == DCmp(a, b) < 0
DLe(a, b) == DCmp(a, b) <= 0
DGt(a, b) == DCmp(a, b) > 0
DGe(a, b) == DCmp(a, b) >= 0
DEq(a, b) == DCmp(a, b) = 0

DAbs(a) == [c |-> Mag(a.c), e |-> a.e]

\* The larger of the two in place of the smaller.
DLarger(a, b) == IF DLe(a, b) THEN b ELSE a

\* min(a, b)
DMin(a, b) == IF DLe(a, b) THEN a ELSE b

\* a + b with |a| >= |b|, both non-zero: a is scaled to Prec + 3 digits and b
\* is aligned under it, the digits of b that fall off are kept as a sticky bit.
AddOrdered(a, b) ==
    LET W      == Prec + 3
        da     == Digits(Mag(a.c))
        ka     == IF da < W THEN W - da ELSE 0
        A      == Mag(a.c) * Pow10(ka)
        E      == a.e - ka
        sh     == b.e - E
        B      == IF sh >= 0 THEN Mag(b.c) * Pow10(sh)
                  ELSE IF -sh > 9 THEN 0
                  ELSE Mag(b.c) \div Pow10(-sh)
        sticky == IF sh >= 0 THEN FALSE
                  ELSE IF -sh > 9 THEN TRUE
                  ELSE Mag(b.c) % Pow10(-sh) # 0
        same   == Sign(a.c) = Sign(b.c)
        n      == IF same THEN A + B
                  ELSE IF sticky THEN A - B - 1 ELSE A - B
    IN  WithSign(Sign(a.c), RoundHE(n, E, sticky))

DAdd(a, b) ==
    IF a.c = 0 THEN WithSign(Sign(b.c), RoundHE(Mag(b.c), b.e, FALSE))
    ELSE IF b.c = 0 THEN WithSign(Sign(a.c), RoundHE(Mag(a.c), a.e, FALSE))
    ELSE IF MagCmp(a, b) >= 0 THEN AddOrdered(a, b)
    ELSE AddOrdered(b, a)

DSub(a, b) == DAdd(a, DNeg(b))

DMul(a, b) ==
    WithSign(Sign(a.c) * Sign(b.c), RoundHE(Mag(a.c) * Mag(b.c), a.e + b.e, FALSE))

\* Smallest s >= 0 with n1 * 10^s >= n2 * 10^Prec.
RECURSIVE DivShift(_, _, _)
DivShift(n1, n2, s) ==
    IF n1 * Pow10(s) >= n2 * Pow10(Prec) THEN s ELSE DivShift(n1, n2, s + 1)

\* What a division by zero leaves: the context traps it (DivisionByZero,
\* InvalidOperation for 0 / 0) and no Decimal is produced.
DivisionTrap == [c |-> 0, e |-> -1]

\* a / b: the quotient is taken to Prec + 1 digits plus a sticky bit.
DDiv(a, b) ==
    IF b.c = 0 THEN DivisionTrap
    ELSE IF a.c = 0 THEN Zero
    ELSE LET n1 == Mag(a.c)
             n2 == Mag(b.c)
             s  == DivShift(n1, n2, 0)
             q  == (n1 * Pow10(s)) \div n2
             r  == (n1 * Pow10(s)) % n2
         IN  WithSign(Sign(a.c) * Sign(b.c), RoundHE(q, a.e - b.e - s, r # 0))

\* Floor of the square root of x, searched in lo..hi.
RECURSIVE ISqrt(_, _, _)
ISqrt(x, lo, hi) ==
    IF lo >= hi THEN lo
    ELSE LET mid == (lo + hi + 1) \div 2
         IN  IF mid * mid <= x THEN ISqrt(x, mid, hi) ELSE ISqrt(x, lo, mid - 1)

\* Decimal.sqrt() of a >= 0, correctly rounded: the radicand is scaled to
\* 2*Prec - 1 or 2*Prec digits with an even exponent.
DSqrt(a) ==
    IF a.c = 0 THEN Zero
    ELSE LET d  == Digits(a.c)
             k0 == 2 * Prec - d
             k  == IF (a.e - k0) % 2 = 0 THEN k0 ELSE k0 - 1
             x  == a.c * Pow10(k)
             s  == ISqrt(x, 0, Pow10(Prec))
             up == x > s * s + s
         IN  Norm(IF up THEN s + 1 ELSE s, (a.e - k) \div 2)


(***************************************************************************)
(* Inputs.  Amounts, prices and basis points the callers supply.           *)
(***************************************************************************)
Assets == {"LBTC", "LUSDt"}

Holders == {"user"}

\* <<initial_lbtc, initial_lusdt, btc_price, swap_fee_bps, flash_fee_bps>>
InitConfigs ==
    { <<Dec(1, 0), Dec(1, 2), Dec(1, 2), 30, 100>>,
      <<Dec(1, 0), Dec(1, 2), Dec(5, 1), 0, 0>> }

SwapAmounts == {Dec(1, 0), Dec(1, 1)}

LiquidityAmounts == { <<Dec(1, 0), Dec(1, 2)>>, <<Dec(1, 1), Dec(1, 3)>> }

LpAmounts == {Dec(1, 0), Dec(1, 1)}

LoanAmounts == {Dec(1, -1), Dec(1, 1), Dec(5, 1)}

RepaidAmounts == {Dec(1, -2), Dec(1, 3)}

Adjustments == {Dec(1, 1), Dec(7, 1), Dec(1, 2), Dec(-12, 1)}

Actions == {"add_debt", "remove_debt"}

Prices == {Dec(5, 1), Dec(2, 2)}

BtcAmounts == {Dec(1, 0)}

LoanIds == 1..MaxLoans

(***************************************************************************)
(* State: the fields of YieldBasisAMM, the identifier source, and the      *)
(* record of the last call (its arguments, outcome and the ledger it       *)
(* started from).                                                           *)
(***************************************************************************)
VARIABLES
    swap_fee, flash_fee,
    lbtc_reserve, lusdt_reserve,
    debt_amount, btc_price,
    lp_supply, yb_supply, yb_holders,
    accumulated_fees, active_loans,
    next_loan,      \* uuid4(): identifiers are issued fresh, never reused
    settled,        \* loan ids complete_flashloan has returned a fee for
    cancelled,      \* loan ids cancel_flashloan has removed
    accruals,       \* loan id -> number of times its fee was accrued
    threads,        \* request thread -> the call it is in and its local values
    treasury,       \* BitfinexClient.treasury: asset -> balance
    outstanding_flashloans,   \* BitfinexClient: loan id -> reserved asset and amount
    bot,            \* rebalance_loop: where it stands and its local variable terms
    last, steps

config == <<swap_fee, flash_fee>>
ledger == <<lbtc_reserve, lusdt_reserve, debt_amount, btc_price, lp_supply,
            yb_supply, yb_holders, accumulated_fees, active_loans>>
history == <<next_loan, settled, cancelled, accruals>>
service == <<treasury, outstanding_flashloans, bot>>
vars == <<config, ledger, history, threads, service, last, steps>>

Ledger ==
    [ lbtc_reserve     |-> lbtc_reserve,
      lusdt_reserve    |-> lusdt_reserve,
      debt_amount      |-> debt_amount,
      btc_price        |-> btc_price,
      lp_supply        |-> lp_supply,
      yb_supply        |-> yb_supply,
      yb_holders       |-> yb_holders,
      accumulated_fees |-> accumulated_fees,
      active_loans     |-> active_loans,
      settled          |-> settled,
      cancelled        |-> cancelled ]

(***************************************************************************)
(* PoolState and its derived properties.                                   *)
(***************************************************************************)
PoolState(lbtc, lusdt, debt, price, lp, yb) ==
    [ lbtc_reserve |-> lbtc, lusdt_reserve |-> lusdt, debt_amount |-> debt,
      btc_price |-> price, lp_supply |-> lp, yb_supply |-> yb ]

GetState ==
    PoolState(lbtc_reserve, lusdt_reserve, debt_amount, btc_price, lp_supply, yb_supply)

PoolValueUsd(s) == DAdd(DMul(s.lbtc_reserve, s.btc_price), s.lusdt_reserve)

DebtRatio(s) ==
    IF PoolValueUsd(s) = Zero THEN Zero
    ELSE DDiv(s.debt_amount, PoolValueUsd(s))

\* leverage_multiplier without the saturation: the quotient is always taken.
LeverageMultiplierUnsaturated(s) == DDiv(One, DSub(One, DebtRatio(s)))

LeverageMultiplier(s) ==
    IF DGe(DebtRatio(s), Dec(99, -2)) THEN Dec(999, 0)
    ELSE DDiv(One, DSub(One, DebtRatio(s)))

\* is_healthy with the upper comparison left out.
IsHealthyNoUpperBound(s) == DLe(Dec(625, -4), DebtRatio(s))

IsHealthy(s) ==
    DLe(Dec(625, -4), DebtRatio(s)) /\ DLe(DebtRatio(s), Dec(53125, -5))

Invariant == DMul(lbtc_reserve, lusdt_reserve)

\* price(): LUSDt per LBTC, zero for a pool without LBTC.
Price == IF lbtc_reserve = Zero THEN Zero ELSE DDiv(lusdt_reserve, lbtc_reserve)

(***************************************************************************)
(* __init__                                                                *)
(***************************************************************************)
\* The request threads of the service, and a thread that is in no call.
Threads == {1, 2}

\* CONFIG.bitfinex_prep_capital_lbtc and _usdt: what the treasury holds at
\* the start.
PrepCapital == [LBTC |-> Zero, LUSDt |-> Dec(5, 2)]

\* A local variable of rebalance_loop that no statement has assigned yet.
Unbound == [loan_id |-> 0]

NoCall ==
    [ pc |-> "idle", op |-> "", args |-> << >>, pre |-> << >>, writes |-> << >>,
      loaded |-> Zero, ok |-> TRUE, err |-> "", ret |-> << >> ]

Call(op, ok, err, args, ret) ==
    [op |-> op, ok |-> ok, err |-> err, pre |-> Ledger, args |-> args, ret |-> ret]

Construct(cfg) ==
        /\ swap_fee = DDiv(Dec(cfg[4], 0), Dec(10000, 0))
        /\ flash_fee = DDiv(Dec(cfg[5], 0), Dec(10000, 0))
        /\ lbtc_reserve = cfg[1]
        /\ lusdt_reserve = cfg[2]
        /\ debt_amount = DMul(DAdd(DMul(cfg[1], cfg[3]), cfg[2]), Dec(5, -1))
        /\ btc_price = cfg[3]
        /\ lp_supply = DSqrt(DMul(cfg[1], cfg[2]))
        /\ yb_supply = cfg[1]
        /\ yb_holders = [h \in Holders |-> Zero]
        /\ accumulated_fees = [a \in Assets |-> Zero]
        /\ active_loans = [i \in {} |-> Zero]
        /\ next_loan = 1
        /\ settled = {}
        /\ cancelled = {}
        /\ accruals = [i \in LoanIds |-> 0]
        /\ threads = [t \in Threads |-> NoCall]
        /\ treasury = PrepCapital
        /\ outstanding_flashloans = [i \in {} |-> Zero]
        /\ bot = [pc |-> "poll", terms |-> Unbound]
        /\ last = [op |-> "__init__", ok |-> TRUE, err |-> "", pre |-> << >>,
                   args |-> cfg, ret |-> << >>]
        /\ steps = 0

Init == \E cfg \in InitConfigs : Construct(cfg)

\* One more call is made, from start to end with no other call in between;
\* whatever a handler does not name stays as it was.
Step == steps < MaxSteps /\ steps' = steps + 1 /\ UNCHANGED <<threads, service>>


(***************************************************************************)
(* Swaps.                                                                  *)
(***************************************************************************)
\* Every refusal raised alike, whatever its cause.
RejectAlike(err) == [ok |-> FALSE, err |-> "ValueError"]

\* raise ValueError(err)
Reject(err) == [ok |-> FALSE, err |-> err]

\* quote_swap on the ledger values s.
QuoteSwapOn(s, input_asset, amount_in) ==
    IF DLe(amount_in, Zero) THEN Reject("Amount must be positive")
    ELSE IF input_asset \notin Assets THEN Reject("Unknown asset")
    ELSE
    LET reserve_in  == IF input_asset = "LBTC" THEN s.lbtc_reserve ELSE s.lusdt_reserve
        reserve_out == IF input_asset = "LBTC" THEN s.lusdt_reserve ELSE s.lbtc_reserve
        amount_in_after_fee == DMul(amount_in, DSub(One, swap_fee))
        fee_paid    == DMul(amount_in, swap_fee)
        amount_out  == DDiv(DMul(reserve_out, amount_in_after_fee),
                            DAdd(reserve_in, amount_in_after_fee))
        new_lbtc    == IF input_asset = "LBTC" THEN DAdd(reserve_in, amount_in)
                       ELSE DSub(reserve_out, amount_out)
        new_lusdt   == IF input_asset = "LBTC" THEN DSub(reserve_out, amount_out)
                       ELSE DAdd(reserve_in, amount_in)
    IN  IF DLe(reserve_in, Zero) \/ DLe(reserve_out, Zero)
        THEN Reject("Pool has zero reserves")
        ELSE IF DLe(amount_out, Zero) THEN Reject("Output amount would be zero")
        ELSE [ ok           |-> TRUE,
               err          |-> "",
               input_asset  |-> input_asset,
               output_asset |-> IF input_asset = "LBTC" THEN "LUSDt" ELSE "LBTC",
               amount_in    |-> amount_in,
               amount_out   |-> amount_out,
               fee_paid     |-> fee_paid,
               price_after  |-> IF DGt(new_lbtc, Zero) THEN DDiv(new_lusdt, new_lbtc) ELSE Zero,
               new_state    |-> PoolState(new_lbtc, new_lusdt, s.debt_amount, s.btc_price,
                                          s.lp_supply, s.yb_supply) ]

QuoteSwap(input_asset, amount_in) == QuoteSwapOn(GetState, input_asset, amount_in)

\* execute_swap; args is what the record of the call keeps of its arguments.
Swap(input_asset, amount_in, args) ==
    LET quote == QuoteSwap(input_asset, amount_in) IN
    /\ Step
    /\ IF ~quote.ok
       THEN /\ last' = Call("execute_swap", FALSE, quote.err, args, << >>)
            /\ UNCHANGED <<config, ledger, history>>
       ELSE /\ IF input_asset = "LBTC"
               THEN /\ lbtc_reserve' = DAdd(lbtc_reserve, quote.amount_in)
                    /\ lusdt_reserve' = DSub(lusdt_reserve, quote.amount_out)
               ELSE /\ lusdt_reserve' = DAdd(lusdt_reserve, quote.amount_in)
                    /\ lbtc_reserve' = DSub(lbtc_reserve, quote.amount_out)
            /\ accumulated_fees' =
                   [accumulated_fees EXCEPT ![input_asset] = DAdd(@, quote.fee_paid)]
            /\ last' = Call("execute_swap", TRUE, "", args, quote)
            /\ UNCHANGED <<config, debt_amount, btc_price, lp_supply, yb_supply,
                           yb_holders, active_loans, history>>

ExecuteSwap(input_asset, amount_in) ==
    Swap(input_asset, amount_in, [input_asset |-> input_asset, amount_in |-> amount_in])

(***************************************************************************)
(* LP operations.                                                          *)
(***************************************************************************)
AddLiquidity(lbtc_amount, lusdt_amount) ==
    LET args == [lbtc_amount |-> lbtc_amount, lusdt_amount |-> lusdt_amount]
        lp_tokens ==
            IF lp_supply = Zero
            THEN DSqrt(DMul(lbtc_amount, lusdt_amount))
            ELSE DMul(lp_supply, DMin(DDiv(lbtc_amount, lbtc_reserve),
                                      DDiv(lusdt_amount, lusdt_reserve)))
    IN
    /\ Step
    /\ IF DLe(lbtc_amount, Zero) \/ DLe(lusdt_amount, Zero)
       THEN /\ last' = Call("add_liquidity", FALSE, "Amounts must be positive", args, << >>)
            /\ UNCHANGED <<config, ledger, history>>
       ELSE IF lp_supply # Zero /\ (lbtc_reserve = Zero \/ lusdt_reserve = Zero)
       THEN \* Decimal division by a zero reserve traps before anything is written
            /\ last' = Call("add_liquidity", FALSE, "DivisionByZero", args, << >>)
            /\ UNCHANGED <<config, ledger, history>>
       ELSE /\ lbtc_reserve' = DAdd(lbtc_reserve, lbtc_amount)
            /\ lusdt_reserve' = DAdd(lusdt_reserve, lusdt_amount)
            /\ lp_supply' = DAdd(lp_supply, lp_tokens)
            /\ last' = Call("add_liquidity", TRUE, "", args, lp_tokens)
            /\ UNCHANGED <<config, debt_amount, btc_price, yb_supply, yb_holders,
                           accumulated_fees, active_loans, history>>

\* remove_liquidity; args is what the record of the call keeps of its arguments.
Remove(lp_tokens, args) ==
    LET share     == DDiv(lp_tokens, lp_supply)
        lbtc_out  == DMul(lbtc_reserve, share)
        lusdt_out == DMul(lusdt_reserve, share)
    IN
    /\ Step
    /\ IF DLe(lp_tokens, Zero) \/ DGt(lp_tokens, lp_supply)
       THEN /\ last' = Call("remove_liquidity", FALSE, "Invalid LP token amount", args, << >>)
            /\ UNCHANGED <<config, ledger, history>>
       ELSE /\ lbtc_reserve' = DSub(lbtc_reserve, lbtc_out)
            /\ lusdt_reserve' = DSub(lusdt_reserve, lusdt_out)
            /\ lp_supply' = DSub(lp_supply, lp_tokens)
            /\ last' = Call("remove_liquidity", TRUE, "", args, <<lbtc_out, lusdt_out>>)
            /\ UNCHANGED <<config, debt_amount, btc_price, yb_supply, yb_holders,
                           accumulated_fees, active_loans, history>>

RemoveLiquidity(lp_tokens) == Remove(lp_tokens, [lp_tokens |-> lp_tokens])


(***************************************************************************)
(* Flash loans.                                                            *)
(***************************************************************************)
FlashLoanTerms(loan_id, asset, amount, repay, fee) ==
    [ loan_id |-> loan_id, borrow_asset |-> asset, borrow_amount |-> amount,
      repay_amount |-> repay, repay_asset |-> asset, fee_amount |-> fee ]

\* A lookup in place of the pop: the record stays in the table.
PopKeepsRecord(loans, loan_id) == loans

\* dict.pop(loan_id)
Pop(loans, loan_id) == [i \in DOMAIN loans \ {loan_id} |-> loans[i]]

\* The table is replaced by one holding the new record alone.
PutAlone(loans, loan_id, terms) == [i \in {loan_id} |-> terms]

\* dict[loan_id] = terms
Put(loans, loan_id, terms) ==
    [i \in DOMAIN loans \cup {loan_id} |-> IF i = loan_id THEN terms ELSE loans[i]]

\* The loan is granted whatever its size against the reserve.
PrepareFlashloanUncapped(asset, amount) ==
    LET args  == [asset |-> asset, amount |-> amount]
        fee   == DMul(amount, flash_fee)
        terms == FlashLoanTerms(next_loan, asset, amount, DAdd(amount, fee), fee)
    IN
    /\ Step
    /\ next_loan <= MaxLoans
    /\ IF DLe(amount, Zero)
       THEN /\ last' = Call("prepare_flashloan", FALSE, "Amount must be positive", args, << >>)
            /\ UNCHANGED <<config, ledger, history>>
       ELSE IF asset \notin Assets
       THEN /\ last' = Call("prepare_flashloan", FALSE, "Unsupported asset", args, << >>)
            /\ UNCHANGED <<config, ledger, history>>
       ELSE /\ active_loans' = Put(active_loans, next_loan, terms)
            /\ next_loan' = next_loan + 1
            /\ last' = Call("prepare_flashloan", TRUE, "", args, terms)
            /\ UNCHANGED <<config, lbtc_reserve, lusdt_reserve, debt_amount, btc_price,
                           lp_supply, yb_supply, yb_holders, accumulated_fees,
                           settled, cancelled, accruals>>

PrepareFlashloan(asset, amount) ==
    LET args     == [asset |-> asset, amount |-> amount]
        reserve  == IF asset = "LBTC" THEN lbtc_reserve ELSE lusdt_reserve
        max_loan == DMul(reserve, Dec(3, -1))
        fee      == DMul(amount, flash_fee)
        repay    == DAdd(amount, fee)
        terms    == FlashLoanTerms(next_loan, asset, amount, repay, fee)
    IN
    /\ Step
    /\ next_loan <= MaxLoans
    /\ IF DLe(amount, Zero)
       THEN /\ last' = Call("prepare_flashloan", FALSE, "Amount must be positive", args, << >>)
            /\ UNCHANGED <<config, ledger, history>>
       ELSE IF asset \notin Assets
       THEN /\ last' = Call("prepare_flashloan", FALSE, "Unsupported asset", args, << >>)
            /\ UNCHANGED <<config, ledger, history>>
       ELSE IF DGt(amount, max_loan)
       THEN /\ last' = Call("prepare_flashloan", FALSE, "Loan exceeds max", args, << >>)
            /\ UNCHANGED <<config, ledger, history>>
       ELSE /\ active_loans' = Put(active_loans, next_loan, terms)
            /\ next_loan' = next_loan + 1
            /\ last' = Call("prepare_flashloan", TRUE, "", args, terms)
            /\ UNCHANGED <<config, lbtc_reserve, lusdt_reserve, debt_amount, btc_price,
                           lp_supply, yb_supply, yb_holders, accumulated_fees,
                           settled, cancelled, accruals>>

\* complete_flashloan that keeps whatever was repaid above the principal.
CompleteFlashloanKeepsSurplus(loan_id, repaid) ==
    LET args  == [loan_id |-> loan_id, repaid |-> repaid]
        terms == active_loans[loan_id]
        kept  == DSub(repaid, terms.borrow_amount)
    IN
    /\ Step
    /\ IF loan_id \notin DOMAIN active_loans
       THEN /\ last' = Call("complete_flashloan", FALSE, "Unknown loan", args, << >>)
            /\ UNCHANGED <<config, ledger, history>>
       ELSE IF DLt(repaid, terms.repay_amount)
       THEN /\ active_loans' = Pop(active_loans, loan_id)
            /\ last' = Call("complete_flashloan", FALSE, "Insufficient repayment", args, << >>)
            /\ UNCHANGED <<config, lbtc_reserve, lusdt_reserve, debt_amount, btc_price,
                           lp_supply, yb_supply, yb_holders, accumulated_fees, history>>
       ELSE /\ active_loans' = Pop(active_loans, loan_id)
            /\ accumulated_fees' =
                   [accumulated_fees EXCEPT ![terms.borrow_asset] = DAdd(@, kept)]
            /\ settled' = settled \cup {loan_id}
            /\ accruals' = [accruals EXCEPT ![loan_id] = @ + 1]
            /\ last' = Call("complete_flashloan", TRUE, "", args, kept)
            /\ UNCHANGED <<config, lbtc_reserve, lusdt_reserve, debt_amount, btc_price,
                           lp_supply, yb_supply, yb_holders, next_loan, cancelled>>

CompleteFlashloan(loan_id, repaid) ==
    LET args  == [loan_id |-> loan_id, repaid |-> repaid]
        terms == active_loans[loan_id]
    IN
    /\ Step
    /\ IF loan_id \notin DOMAIN active_loans
       THEN /\ last' = Call("complete_flashloan", FALSE, "Unknown loan", args, << >>)
            /\ UNCHANGED <<config, ledger, history>>
       ELSE IF DLt(repaid, terms.repay_amount)
       THEN \* the record was popped before the repayment was compared
            /\ active_loans' = Pop(active_loans, loan_id)
            /\ last' = Call("complete_flashloan", FALSE, "Insufficient repayment", args, << >>)
            /\ UNCHANGED <<config, lbtc_reserve, lusdt_reserve, debt_amount, btc_price,
                           lp_supply, yb_supply, yb_holders, accumulated_fees, history>>
       ELSE /\ active_loans' = Pop(active_loans, loan_id)
            /\ accumulated_fees' =
                   [accumulated_fees EXCEPT ![terms.borrow_asset] = DAdd(@, terms.fee_amount)]
            /\ settled' = settled \cup {loan_id}
            /\ accruals' = [accruals EXCEPT ![loan_id] = @ + 1]
            /\ last' = Call("complete_flashloan", TRUE, "", args, terms.fee_amount)
            /\ UNCHANGED <<config, lbtc_reserve, lusdt_reserve, debt_amount, btc_price,
                           lp_supply, yb_supply, yb_holders, next_loan, cancelled>>

\* cancel_flashloan that reports the cancellation but leaves the record.
CancelFlashloanKeepsLoan(loan_id) ==
    /\ Step
    /\ cancelled' = IF loan_id \in DOMAIN active_loans
                    THEN cancelled \cup {loan_id} ELSE cancelled
    /\ last' = Call("cancel_flashloan", TRUE, "", [loan_id |-> loan_id], << >>)
    /\ UNCHANGED <<config, ledger, next_loan, settled, accruals>>

CancelFlashloan(loan_id) ==
    /\ Step
    /\ active_loans' = Pop(active_loans, loan_id)
    /\ cancelled' = IF loan_id \in DOMAIN active_loans
                    THEN cancelled \cup {loan_id} ELSE cancelled
    /\ last' = Call("cancel_flashloan", TRUE, "", [loan_id |-> loan_id], << >>)
    /\ UNCHANGED <<config, lbtc_reserve, lusdt_reserve, debt_amount, btc_price,
                   lp_supply, yb_supply, yb_holders, accumulated_fees,
                   next_loan, settled, accruals>>

(***************************************************************************)
(* Rebalancing and the oracle.                                             *)
(***************************************************************************)
\* The body of rebalance_via_flashloan; args is what the record of the call
\* keeps of its arguments.
Adjust(adjustment, action, args) ==
    LET new_debt  == IF action = "add_debt" THEN DAdd(debt_amount, adjustment)
                     ELSE DSub(debt_amount, adjustment)
        new_lusdt == IF action = "add_debt" THEN DAdd(lusdt_reserve, adjustment)
                     ELSE DSub(lusdt_reserve, adjustment)
        state     == PoolState(lbtc_reserve, new_lusdt, new_debt, btc_price,
                               lp_supply, yb_supply)
    IN
    /\ IF action \notin {"add_debt", "remove_debt"}
       THEN /\ last' = Call("rebalance_via_flashloan", FALSE, "Unknown action", args, << >>)
            /\ UNCHANGED <<config, ledger, history>>
       ELSE IF action = "remove_debt" /\ DLt(lusdt_reserve, adjustment)
       THEN /\ last' = Call("rebalance_via_flashloan", FALSE, "Insufficient USDT to remove",
                            args, << >>)
            /\ UNCHANGED <<config, ledger, history>>
       ELSE \* debt and reserve are written first, the covenant is verified after
            /\ debt_amount' = new_debt
            /\ lusdt_reserve' = new_lusdt
            /\ last' = IF IsHealthy(state)
                       THEN Call("rebalance_via_flashloan", TRUE, "", args, << >>)
                       ELSE Call("rebalance_via_flashloan", FALSE,
                                 "Rebalancing violates covenant", args, << >>)
            /\ UNCHANGED <<config, lbtc_reserve, btc_price, lp_supply, yb_supply,
                           yb_holders, accumulated_fees, active_loans, history>>

Rebalance(adjustment, action, args) == Step /\ Adjust(adjustment, action, args)

RebalanceViaFlashloan(adjustment, action) ==
    Rebalance(adjustment, action, [adjustment |-> adjustment, action |-> action])

\* detect_rebalance_opportunity returned None.
NoOpportunity == [action |-> "None"]

ArbitrageOpportunity(action, current_ratio, target_ratio, debt_adjustment, expected_profit) ==
    [ action |-> action, current_ratio |-> current_ratio, target_ratio |-> target_ratio,
      debt_adjustment |-> debt_adjustment, expected_profit |-> expected_profit,
      method |-> "flash_loan" ]

\* The query with the tolerance taken as an open bound: a deviation of exactly
\* 0.05 already asks for an adjustment.
OpportunityAtTolerance(state) ==
    LET target_ratio    == Dec(5, -1)
        current_ratio   == DebtRatio(state)
        deviation       == DAbs(DSub(current_ratio, target_ratio))
        target_debt     == DMul(PoolValueUsd(state), target_ratio)
        debt_adjustment == DAbs(DSub(target_debt, state.debt_amount))
        expected_profit == DMul(debt_adjustment, Dec(5, -3))
    IN  IF DLt(deviation, Dec(5, -2)) THEN NoOpportunity
        ELSE ArbitrageOpportunity(IF DLt(current_ratio, target_ratio)
                                  THEN "add_debt" ELSE "remove_debt",
                                  current_ratio, target_ratio, debt_adjustment,
                                  expected_profit)

\* The query as a function of the snapshot get_state() returns.
Opportunity(state) ==
    LET target_ratio    == Dec(5, -1)
        current_ratio   == DebtRatio(state)
        deviation       == DAbs(DSub(current_ratio, target_ratio))
        target_debt     == DMul(PoolValueUsd(state), target_ratio)
        debt_adjustment == DAbs(DSub(target_debt, state.debt_amount))
        expected_profit == DMul(debt_adjustment, Dec(5, -3))
    IN  IF DLe(deviation, Dec(5, -2)) THEN NoOpportunity
        ELSE ArbitrageOpportunity(IF DLt(current_ratio, target_ratio)
                                  THEN "add_debt" ELSE "remove_debt",
                                  current_ratio, target_ratio, debt_adjustment,
                                  expected_profit)

\* The body of detect_rebalance_opportunity.
Detect ==
    /\ last' = Call("detect_rebalance_opportunity", TRUE, "", << >>, Opportunity(GetState))
    /\ UNCHANGED <<config, ledger, history>>

DetectRebalanceOpportunity == Step /\ Detect

\* arbitrage_opportunity: the market price and the tolerance are received and
\* not used.
ArbitrageOpportunityQuery(market_price, tolerance) ==
    /\ Step
    /\ last' = Call("arbitrage_opportunity", TRUE, "",
                    [market_price |-> market_price, tolerance |-> tolerance],
                    Opportunity(GetState))
    /\ UNCHANGED <<config, ledger, history>>

UpdatePrice(new_price) ==
    /\ Step
    /\ btc_price' = new_price
    /\ last' = Call("update_price", TRUE, "", [new_price |-> new_price],
                    <<GetState, PoolState(lbtc_reserve, lusdt_reserve, debt_amount,
                                          new_price, lp_supply, yb_supply)>>)
    /\ UNCHANGED <<config, lbtc_reserve, lusdt_reserve, debt_amount, lp_supply,
                   yb_supply, yb_holders, accumulated_fees, active_loans, history>>

(***************************************************************************)
(* ybBTC deposits and withdrawals.                                         *)
(***************************************************************************)
DepositBtcForYb(btc_amount, depositor) ==
    LET args          == [btc_amount |-> btc_amount, depositor |-> depositor]
        usd_to_borrow == DMul(btc_amount, btc_price)
        new_lbtc      == DAdd(lbtc_reserve, btc_amount)
        new_debt      == DAdd(debt_amount, usd_to_borrow)
        new_lusdt     == DAdd(lusdt_reserve, usd_to_borrow)
        new_yb        == DAdd(yb_supply, btc_amount)
        state         == PoolState(new_lbtc, new_lusdt, new_debt, btc_price, lp_supply, new_yb)
    IN
    /\ Step
    /\ IF DLe(btc_amount, Zero)
       THEN /\ last' = Call("deposit_btc_for_yb", FALSE, "BTC amount must be positive",
                            args, << >>)
            /\ UNCHANGED <<config, ledger, history>>
       ELSE \* reserves, debt and balances are written first, the covenant is verified after
            /\ lbtc_reserve' = new_lbtc
            /\ debt_amount' = new_debt
            /\ lusdt_reserve' = new_lusdt
            /\ yb_supply' = new_yb
            /\ yb_holders' = [yb_holders EXCEPT ![depositor] = DAdd(@, btc_amount)]
            /\ last' = IF IsHealthy(state)
                       THEN Call("deposit_btc_for_yb", TRUE, "", args, btc_amount)
                       ELSE Call("deposit_btc_for_yb", FALSE, "Deposit violates covenant",
                                 args, << >>)
            /\ UNCHANGED <<config, btc_price, lp_supply, accumulated_fees, active_loans,
                           history>>

\* withdraw_yb; args is what the record of the call keeps of its arguments.
Withdraw(yb_tokens, holder, args) ==
    LET share         == DDiv(yb_tokens, yb_supply)
        btc_out       == DMul(lbtc_reserve, share)
        usd_value_out == DMul(lusdt_reserve, share)
        profit        == DSub(usd_value_out, DMul(yb_tokens, btc_price))
        debt_repay    == DMul(debt_amount, share)
    IN
    /\ Step
    /\ IF DLe(yb_tokens, Zero)
       THEN /\ last' = Call("withdraw_yb", FALSE, "ybBTC amount must be positive", args, << >>)
            /\ UNCHANGED <<config, ledger, history>>
       ELSE IF DLt(yb_holders[holder], yb_tokens)
       THEN /\ last' = Call("withdraw_yb", FALSE, "Insufficient ybBTC balance", args, << >>)
            /\ UNCHANGED <<config, ledger, history>>
       ELSE /\ yb_supply' = DSub(yb_supply, yb_tokens)
            /\ yb_holders' = [yb_holders EXCEPT ![holder] = DSub(@, yb_tokens)]
            /\ lbtc_reserve' = DSub(lbtc_reserve, btc_out)
            /\ lusdt_reserve' = DSub(lusdt_reserve, usd_value_out)
            /\ debt_amount' = DSub(debt_amount, debt_repay)
            /\ last' = Call("withdraw_yb", TRUE, "", args, <<btc_out, profit>>)
            /\ UNCHANGED <<config, btc_price, lp_supply, accumulated_fees, active_loans,
                           history>>

WithdrawYb(yb_tokens, holder) ==
    Withdraw(yb_tokens, holder, [yb_tokens |-> yb_tokens, holder |-> holder])

(***************************************************************************)
(* Specification.                                                          *)
(***************************************************************************)
Next ==
    \/ \E a \in Assets, x \in SwapAmounts : ExecuteSwap(a, x)
    \/ \E p \in LiquidityAmounts : AddLiquidity(p[1], p[2])
    \/ \E x \in LpAmounts : RemoveLiquidity(x)
    \/ \E a \in Assets, x \in LoanAmounts : PrepareFlashloan(a, x)
    \/ \E i \in LoanIds, x \in RepaidAmounts : CompleteFlashloan(i, x)
    \/ \E i \in LoanIds : CancelFlashloan(i)
    \/ \E x \in Adjustments, a \in Actions : RebalanceViaFlashloan(x, a)
    \/ \E p \in Prices : UpdatePrice(p)
    \/ \E x \in BtcAmounts, h \in Holders : DepositBtcForYb(x, h)
    \/ \E x \in BtcAmounts, h \in Holders : WithdrawYb(x, h)

Spec == Init /\ [][Next]_vars


(***************************************************************************)
(* Swaps on their own: every kind of argument execute_swap can be handed,  *)
(* a pool whose fee takes the whole input, and the swap of a received      *)
(* amount back into the asset that was paid.                               *)
(***************************************************************************)
SwapConfigs == InitConfigs \cup { <<Dec(1, 0), Dec(1, 2), Dec(1, 2), 10000, 100>> }

AnyAssets == Assets \cup {"XBT"}

AnySwapAmounts == SwapAmounts \cup {Zero, Dec(-1, 0), Dec(21, 0), Dec(53, 5)}

InitSwap == \E cfg \in SwapConfigs : Construct(cfg)

\* The swap of a received amount back: execute_swap(quote.output_asset,
\* quote.amount_out) on the quote the last execute_swap returned; sent is what
\* that swap was given.
SwapBackCalls ==
    IF last.op = "execute_swap" /\ last.ok
    THEN { [input_asset |-> last.ret.output_asset, amount_in |-> last.ret.amount_out,
            sent |-> last.args.amount_in] }
    ELSE {}

\* The execute_swap calls a caller can make in the current state.
SwapCalls ==
    { [input_asset |-> a, amount_in |-> x] : a \in AnyAssets, x \in AnySwapAmounts }
        \cup SwapBackCalls

NextSwap ==
    \/ \E args \in SwapCalls : Swap(args.input_asset, args.amount_in, args)
    \/ \E x \in LpAmounts : RemoveLiquidity(x)

SpecSwap == InitSwap /\ [][NextSwap]_vars


(***************************************************************************)
(* Liquidity on its own: balanced, one-sided and non-positive deposits,    *)
(* and the withdrawal of exactly the shares a deposit has just minted.     *)
(***************************************************************************)
AnyLiquidityAmounts ==
    LiquidityAmounts \cup { <<Dec(1, 0), Dec(1, 3)>>, <<Dec(1, 0), Dec(9, 1)>>,
                            <<Zero, Dec(1, 2)>> }

\* remove_liquidity(lp_tokens) with the lp_tokens the last add_liquidity
\* returned; the record keeps what that deposit supplied.
RemoveMinted ==
    /\ last.op = "add_liquidity"
    /\ last.ok
    /\ \E x \in {last.ret} :
           Remove(x, [lp_tokens |-> x, lbtc_amount |-> last.args.lbtc_amount,
                      lusdt_amount |-> last.args.lusdt_amount])

NextLiquidity ==
    \/ \E p \in AnyLiquidityAmounts : AddLiquidity(p[1], p[2])
    \/ RemoveMinted
    \/ \E x \in LpAmounts : RemoveLiquidity(x)
    \/ \E a \in Assets, x \in SwapAmounts : ExecuteSwap(a, x)

SpecLiquidity == Init /\ [][NextLiquidity]_vars


(***************************************************************************)
(* Flash loans on their own: every kind of argument prepare_flashloan can  *)
(* be handed, with swaps in between that move the reserves the cap is      *)
(* taken from.                                                             *)
(***************************************************************************)
AnyLoanAmounts == LoanAmounts \cup {Zero, Dec(-1, 0), Dec(3, 1)}

\* The complete_flashloan calls a caller can make in the current state: any
\* identifier with any amount, and each outstanding loan with exactly the
\* repay_amount its terms name.
RepaidCalls ==
    { [loan_id |-> i, repaid |-> x] : i \in LoanIds, x \in RepaidAmounts }
        \cup { [loan_id |-> i, repaid |-> active_loans[i].repay_amount] :
                   i \in DOMAIN active_loans }

NextLoan ==
    \/ \E a \in AnyAssets, x \in AnyLoanAmounts : PrepareFlashloan(a, x)
    \/ \E c \in RepaidCalls : CompleteFlashloan(c.loan_id, c.repaid)
    \/ \E i \in LoanIds : CancelFlashloan(i)
    \/ \E a \in Assets, x \in SwapAmounts : ExecuteSwap(a, x)

SpecLoan == Init /\ [][NextLoan]_vars


(***************************************************************************)
(* Rebalancing on its own: pools seeded at several values, an oracle that  *)
(* can fall to a cent or to nothing, the detection of a deviation and the  *)
(* adjustment it asks for applied as it was returned.                      *)
(***************************************************************************)
RebalanceConfigs ==
    InitConfigs \cup { <<Dec(1, 0), Dec(201, -2), Dec(1, 0), 30, 100>>,
                       <<Dec(1, 0), Dec(2001, -3), Dec(1, 0), 30, 100>> }

AnyPrices == Prices \cup {Zero, Dec(1, -2), Dec(9, 1)}

MarketPrices == {Dec(12, 1)}

Tolerances == {Dec(1, -2)}

InitRebalance == \E cfg \in RebalanceConfigs : Construct(cfg)

\* rebalance_via_flashloan(opportunity.debt_adjustment, opportunity.action) on
\* the opportunity the last detect_rebalance_opportunity returned.
DetectedCalls ==
    IF last.op = "detect_rebalance_opportunity" /\ last.ret # NoOpportunity
    THEN { [adjustment |-> last.ret.debt_adjustment, action |-> last.ret.action,
            target_ratio |-> last.ret.target_ratio] }
    ELSE {}

\* The rebalance_via_flashloan calls a caller can make in the current state.
RebalanceCalls ==
    { [adjustment |-> x, action |-> a] : x \in Adjustments, a \in Actions }
        \cup DetectedCalls

NextRebalance ==
    \/ \E p \in AnyPrices : UpdatePrice(p)
    \/ DetectRebalanceOpportunity
    \/ \E p \in MarketPrices, t \in Tolerances : ArbitrageOpportunityQuery(p, t)
    \/ \E c \in RebalanceCalls : Rebalance(c.adjustment, c.action, c)
    \/ \E x \in LpAmounts : RemoveLiquidity(x)
    \/ \E a \in Assets, x \in SwapAmounts : ExecuteSwap(a, x)

SpecRebalance == InitRebalance /\ [][NextRebalance]_vars


(***************************************************************************)
(* The ledger under the threaded service.  app.run(threaded=True) serves   *)
(* each request on a thread of its own and the ledger methods take no      *)
(* lock, so a thread can be preempted between any two accesses to the      *)
(* shared fields; x += d is a read of x followed by a write of x.          *)
(***************************************************************************)
\* What the requests of the threaded runs ask for.
ThreadSwapAmounts == {Dec(1, 0)}

ThreadLoanAmounts == {Dec(1, 1)}

\* A pending in-place update of a ledger field by a thread.
Write(field, asset, delta) == [field |-> field, asset |-> asset, delta |-> delta]

FieldValue(w) ==
    IF w.field = "lbtc_reserve" THEN lbtc_reserve
    ELSE IF w.field = "lusdt_reserve" THEN lusdt_reserve
    ELSE accumulated_fees[w.asset]

Raise(th, err) == [th EXCEPT !.pc = "done", !.ok = FALSE, !.err = err]

\* A thread with no call yet receives one.
Begin(t, op, args, pc) ==
    /\ threads[t].pc = "idle"
    /\ steps < MaxSteps
    /\ steps' = steps + 1
    /\ threads' = [threads EXCEPT ![t] =
                       [NoCall EXCEPT !.pc = pc, !.op = op, !.args = args, !.pre = Ledger]]
    /\ UNCHANGED <<config, ledger, history, service, last>>

Invoke(t) ==
    \/ \E a \in Assets, x \in ThreadSwapAmounts :
           Begin(t, "execute_swap", [input_asset |-> a, amount_in |-> x], "quote")
    \/ \E i \in LoanIds, x \in RepaidAmounts :
           Begin(t, "complete_flashloan", [loan_id |-> i, repaid |-> x], "check")
    \/ \E i \in LoanIds :
           Begin(t, "cancel_flashloan", [loan_id |-> i], "cancel")

\* execute_swap: quote = self.quote_swap(input_asset, amount_in)
ThreadQuote(t) ==
    LET th    == threads[t]
        asset == th.args.input_asset
        quote == QuoteSwap(asset, th.args.amount_in)
    IN
    /\ th.pc = "quote"
    /\ threads' = [threads EXCEPT ![t] =
           IF ~quote.ok THEN Raise(th, quote.err)
           ELSE [th EXCEPT
                    !.pc = "load",
                    !.ret = quote,
                    !.writes =
                        IF asset = "LBTC"
                        THEN << Write("lbtc_reserve", asset, quote.amount_in),
                                Write("lusdt_reserve", asset, DNeg(quote.amount_out)),
                                Write("accumulated_fees", asset, quote.fee_paid) >>
                        ELSE << Write("lusdt_reserve", asset, quote.amount_in),
                                Write("lbtc_reserve", asset, DNeg(quote.amount_out)),
                                Write("accumulated_fees", asset, quote.fee_paid) >>]]
    /\ UNCHANGED <<config, ledger, history, last, steps, service>>

\* complete_flashloan: if loan_id not in self.active_loans: raise ValueError
ThreadCheck(t) ==
    LET th == threads[t] IN
    /\ th.pc = "check"
    /\ threads' = [threads EXCEPT ![t] =
           IF th.args.loan_id \notin DOMAIN active_loans
           THEN Raise(th, "Unknown loan")
           ELSE [th EXCEPT !.pc = "pop"]]
    /\ UNCHANGED <<config, ledger, history, last, steps, service>>

\* complete_flashloan: terms = self.active_loans.pop(loan_id), which raises
\* KeyError when the key is no longer there, and the comparison of repaid.
ThreadPop(t) ==
    LET th      == threads[t]
        loan_id == th.args.loan_id
        terms   == active_loans[loan_id]
    IN
    /\ th.pc = "pop"
    /\ IF loan_id \notin DOMAIN active_loans
       THEN /\ threads' = [threads EXCEPT ![t] = Raise(th, "KeyError")]
            /\ UNCHANGED active_loans
       ELSE /\ active_loans' = Pop(active_loans, loan_id)
            /\ threads' = [threads EXCEPT ![t] =
                   IF DLt(th.args.repaid, terms.repay_amount)
                   THEN Raise(th, "Insufficient repayment")
                   ELSE [th EXCEPT
                            !.pc = "load",
                            !.ret = terms.fee_amount,
                            !.writes = << Write("accumulated_fees", terms.borrow_asset,
                                                terms.fee_amount) >>]]
    /\ UNCHANGED <<config, lbtc_reserve, lusdt_reserve, debt_amount, btc_price, lp_supply,
                   yb_supply, yb_holders, accumulated_fees, history, last, steps, service>>

\* cancel_flashloan: self.active_loans.pop(loan_id, None)
ThreadCancel(t) ==
    LET th      == threads[t]
        loan_id == th.args.loan_id
    IN
    /\ th.pc = "cancel"
    /\ active_loans' = Pop(active_loans, loan_id)
    /\ cancelled' = IF loan_id \in DOMAIN active_loans
                    THEN cancelled \cup {loan_id} ELSE cancelled
    /\ threads' = [threads EXCEPT ![t] = [th EXCEPT !.pc = "done"]]
    /\ UNCHANGED <<config, lbtc_reserve, lusdt_reserve, debt_amount, btc_price, lp_supply,
                   yb_supply, yb_holders, accumulated_fees, next_loan, settled, accruals,
                   last, steps, service>>

\* x += d, first half: the field is read.
ThreadLoad(t) ==
    LET th == threads[t] IN
    /\ th.pc = "load"
    /\ threads' = [threads EXCEPT ![t] =
                       [th EXCEPT !.pc = "store", !.loaded = FieldValue(Head(th.writes))]]
    /\ UNCHANGED <<config, ledger, history, last, steps, service>>

\* x += d, second half: the sum of what was read and d is written; the call
\* returns after its last update.
ThreadStore(t) ==
    LET th      == threads[t]
        w       == Head(th.writes)
        value   == DAdd(th.loaded, w.delta)
        settles == th.op = "complete_flashloan"
    IN
    /\ th.pc = "store"
    /\ lbtc_reserve' = IF w.field = "lbtc_reserve" THEN value ELSE lbtc_reserve
    /\ lusdt_reserve' = IF w.field = "lusdt_reserve" THEN value ELSE lusdt_reserve
    /\ accumulated_fees' = IF w.field = "accumulated_fees"
                           THEN [accumulated_fees EXCEPT ![w.asset] = value]
                           ELSE accumulated_fees
    /\ settled' = IF settles THEN settled \cup {th.args.loan_id} ELSE settled
    /\ accruals' = IF settles THEN [accruals EXCEPT ![th.args.loan_id] = @ + 1]
                   ELSE accruals
    /\ threads' = [threads EXCEPT ![t] =
                       [th EXCEPT !.writes = Tail(th.writes),
                                  !.pc = IF Tail(th.writes) = << >> THEN "done" ELSE "load"]]
    /\ UNCHANGED <<config, debt_amount, btc_price, lp_supply, yb_supply, yb_holders,
                   active_loans, next_loan, cancelled, last, steps, service>>

NextThreads ==
    \/ \E t \in Threads : Invoke(t)
    \/ \E t \in Threads : ThreadQuote(t)
    \/ \E t \in Threads : ThreadCheck(t)
    \/ \E t \in Threads : ThreadPop(t)
    \/ \E t \in Threads : ThreadCancel(t)
    \/ \E t \in Threads : ThreadLoad(t)
    \/ \E t \in Threads : ThreadStore(t)
    \/ \E a \in Assets, x \in ThreadLoanAmounts : PrepareFlashloan(a, x)

SpecThreads == Init /\ [][NextThreads]_vars


(***************************************************************************)
(* Readers under the threaded service: a request that asks for the pool    *)
(* state while another request is swapping.  get_state reads the fields of *)
(* the pool one after the other and takes no lock.                         *)
(***************************************************************************)
\* The attributes get_state reads, in the order of its keyword arguments.
StateFields ==
    << "lbtc_reserve", "lusdt_reserve", "debt_amount", "btc_price", "lp_supply",
       "yb_supply" >>

Request(t) ==
    \/ \E a \in Assets, x \in ThreadSwapAmounts :
           Begin(t, "execute_swap", [input_asset |-> a, amount_in |-> x], "quote")
    \/ Begin(t, "get_state", << >>, "get")

\* get_state: the next attribute is read into the PoolState being built; the
\* call returns after the last one.
ThreadGet(t) ==
    LET th   == threads[t]
        read == Append(th.ret, Ledger[StateFields[Len(th.ret) + 1]])
    IN
    /\ th.pc = "get"
    /\ threads' = [threads EXCEPT ![t] =
                       [th EXCEPT !.ret = read,
                                  !.pc = IF Len(read) = Len(StateFields)
                                         THEN "done" ELSE "get"]]
    /\ UNCHANGED <<config, ledger, history, last, steps, service>>

NextReaders ==
    \/ \E t \in Threads : Request(t)
    \/ \E t \in Threads : ThreadGet(t)
    \/ \E t \in Threads : ThreadQuote(t)
    \/ \E t \in Threads : ThreadLoad(t)
    \/ \E t \in Threads : ThreadStore(t)

SpecReaders == Init /\ [][NextReaders]_vars


(***************************************************************************)
(* Simulated transactions.  apply_simulated_pset runs the steps a payload  *)
(* lists, one ledger call after the other; a call that raises ends it      *)
(* there, with whatever the calls before it have written.                  *)
(***************************************************************************)
\* execute_swap on the ledger values l: the outcome and the ledger it leaves.
\* (The quote is bound as a value, so that it is computed once; the same is
\* done below wherever one call's result is handed to the next.)
SwapOnto(l, swap) ==
    CHOOSE out \in {
    IF ~quote.ok THEN [ok |-> FALSE, err |-> quote.err, ledger |-> l, ret |-> << >>]
    ELSE [ ok  |-> TRUE,
           err |-> "",
           ret |-> quote,
           ledger |->
               [l EXCEPT
                   !.lbtc_reserve = IF swap.input_asset = "LBTC"
                                    THEN DAdd(@, quote.amount_in)
                                    ELSE DSub(@, quote.amount_out),
                   !.lusdt_reserve = IF swap.input_asset = "LBTC"
                                     THEN DSub(@, quote.amount_out)
                                     ELSE DAdd(@, quote.amount_in),
                   !.accumulated_fees =
                       [@ EXCEPT ![swap.input_asset] = DAdd(@, quote.fee_paid)]] ]
        : quote \in {QuoteSwapOn(l, swap.input_asset, swap.amount_in)} } : TRUE

\* for swap_plan in payload.get("swaps", []): self.execute_swap(...)
RECURSIVE RunSwaps(_, _)
RunSwaps(l, swaps) ==
    IF swaps = << >> THEN [ok |-> TRUE, err |-> "", ledger |-> l, ret |-> << >>]
    ELSE CHOOSE out \in
             { IF ~first.ok THEN first ELSE RunSwaps(first.ledger, Tail(swaps)) :
                   first \in {SwapOnto(l, Head(swaps))} } : TRUE

\* complete_flashloan on the ledger values l.
CompleteOnto(l, loan_id, repaid) ==
    LET terms == l.active_loans[loan_id] IN
    IF loan_id \notin DOMAIN l.active_loans
    THEN [ok |-> FALSE, err |-> "Unknown loan", ledger |-> l, ret |-> << >>]
    ELSE IF DLt(repaid, terms.repay_amount)
    THEN [ ok |-> FALSE, err |-> "Insufficient repayment", ret |-> << >>,
           ledger |-> [l EXCEPT !.active_loans = Pop(@, loan_id)] ]
    ELSE [ ok |-> TRUE, err |-> "", ret |-> terms.fee_amount,
           ledger |-> [l EXCEPT
                          !.active_loans = Pop(@, loan_id),
                          !.accumulated_fees =
                              [@ EXCEPT ![terms.borrow_asset] = DAdd(@, terms.fee_amount)],
                          !.settled = @ \cup {loan_id}] ]

\* apply_simulated_pset on the ledger values l.
PsetOnto(l, payload) ==
    IF payload.type = "swap" THEN SwapOnto(l, payload.swap)
    ELSE IF payload.type = "flashloan"
    THEN CHOOSE out \in
             { IF ~swapped.ok THEN swapped
               ELSE CompleteOnto(swapped.ledger, payload.flashloan.loan_id,
                                 payload.flashloan.repay_amount) :
                   swapped \in {RunSwaps(l, payload.swaps)} } : TRUE
    ELSE [ok |-> FALSE, err |-> "Unknown PSET type", ledger |-> l, ret |-> << >>]

\* The ledger takes the values an outcome holds.
Install(out) ==
    /\ lbtc_reserve' = out.ledger.lbtc_reserve
    /\ lusdt_reserve' = out.ledger.lusdt_reserve
    /\ accumulated_fees' = out.ledger.accumulated_fees
    /\ active_loans' = out.ledger.active_loans
    /\ settled' = out.ledger.settled
    /\ accruals' = [i \in LoanIds |->
                       IF i \in out.ledger.settled \ settled THEN accruals[i] + 1
                       ELSE accruals[i]]
    /\ UNCHANGED <<config, debt_amount, btc_price, lp_supply, yb_supply, yb_holders,
                   next_loan, cancelled>>

ApplySimulatedPset(payload) ==
    \E out \in {PsetOnto(Ledger, payload)} :
    /\ Step
    /\ Install(out)
    /\ last' = Call("apply_simulated_pset", out.ok, out.err, payload, out.ret)

\* The payloads handed in: a swap, a flash loan with the swaps of its plan
\* (none, one, or one followed by a swap of nothing) and the repayment it
\* declares, and a payload of a type that does not exist.
PlannedSwaps ==
    { << >>,
      << [input_asset |-> "LUSDt", amount_in |-> Dec(1, 1)] >>,
      << [input_asset |-> "LUSDt", amount_in |-> Dec(1, 1)],
         [input_asset |-> "LBTC", amount_in |-> Zero] >> }

Payloads ==
    { [type |-> "swap", swap |-> [input_asset |-> a, amount_in |-> x],
       flashloan |-> << >>, swaps |-> << >>] : a \in Assets, x \in ThreadSwapAmounts }
    \cup
    { [type |-> "flashloan", swap |-> << >>,
       flashloan |-> [loan_id |-> c.loan_id, repay_amount |-> c.repaid], swaps |-> s] :
          c \in RepaidCalls, s \in PlannedSwaps }
    \cup
    { [type |-> "burn", swap |-> << >>, flashloan |-> << >>, swaps |-> << >>] }

NextPset ==
    \/ \E a \in Assets, x \in ThreadLoanAmounts : PrepareFlashloan(a, x)
    \/ \E p \in Payloads : ApplySimulatedPset(p)

SpecPset == Init /\ [][NextPset]_vars


(***************************************************************************)
(* Rebalancing to the end: a caller that asks detect_rebalance_opportunity *)
(* and applies what it returns through rebalance_via_flashloan, again and  *)
(* again, with nobody else touching the pool meanwhile.  The pool it       *)
(* starts on is whatever the calls before have left.                       *)
(***************************************************************************)
Caller == 1

\* What is done to the pool before the rounds: the oracle moves, LBTC is
\* swapped in, the debt is adjusted by hand.
SetupPrices == {Zero, Dec(5, 1), Dec(2, 2), Dec(15, 2)}

SetupSwaps == {Dec(1, 1)}

SetupCalls ==
    { [adjustment |-> Dec(-12, 1), action |-> "add_debt"],
      [adjustment |-> Dec(7, 1), action |-> "remove_debt"] }

Quiet == \A t \in Threads : threads[t].pc = "idle"

\* The caller takes up its rounds on the pool as it stands.
CallerStart ==
    /\ Quiet
    /\ threads' = [threads EXCEPT ![Caller] =
                       [NoCall EXCEPT !.pc = "detect", !.op = "rebalance", !.pre = Ledger]]
    /\ UNCHANGED <<config, ledger, history, last, steps, service>>

\* opportunity = pool.detect_rebalance_opportunity(); None ends the rounds.
CallerDetect ==
    LET th == threads[Caller] IN
    /\ th.pc = "detect"
    /\ Detect
    /\ threads' = [threads EXCEPT ![Caller] =
                       [th EXCEPT !.pc = IF last'.ret = NoOpportunity
                                         THEN "done" ELSE "adjust"]]
    /\ UNCHANGED <<steps, service>>

\* The rebalance_via_flashloan calls that can be made: any, while no caller
\* has started; after that the one the caller makes, with the adjustment and
\* the action of the opportunity it was returned.
ConvergeCalls ==
    IF Quiet THEN SetupCalls
    ELSE IF threads[Caller].pc = "adjust"
    THEN { [adjustment |-> last.ret.debt_adjustment, action |-> last.ret.action] }
    ELSE {}

\* pool.rebalance_via_flashloan(adjustment, action): a call like any other
\* before the rounds, and the second half of a round within them.
ConvergeAdjust(call) ==
    LET th == threads[Caller] IN
    /\ Adjust(call.adjustment, call.action, call)
    /\ IF Quiet THEN Step
       ELSE /\ threads' = [threads EXCEPT ![Caller] =
                               IF last'.ok
                               THEN [th EXCEPT !.pc = "detect", !.writes = Append(@, call)]
                               ELSE Raise(th, last'.err)]
            /\ UNCHANGED <<steps, service>>

NextConverge ==
    \/ Quiet /\ \E p \in SetupPrices : UpdatePrice(p)
    \/ Quiet /\ \E x \in SetupSwaps : ExecuteSwap("LBTC", x)
    \/ \E c \in ConvergeCalls : ConvergeAdjust(c)
    \/ CallerStart
    \/ CallerDetect

\* A step of the caller's rounds.
CallerRound == CallerDetect \/ \E c \in ConvergeCalls : ~Quiet /\ ConvergeAdjust(c)

\* A caller that has started goes on: its next call is made whenever it is
\* due.  This is weak fairness of the rounds, WF_vars(CallerRound), with the
\* enabling condition written out: a round can be taken exactly when the
\* caller stands at detect or at adjust.
CallerDue == threads[Caller].pc \in {"detect", "adjust"}

CallerGoesOn == []<>(~CallerDue) \/ []<><<CallerRound>>_vars

SpecConverge == Init /\ [][NextConverge]_vars /\ CallerGoesOn


(***************************************************************************)
(* BitfinexClient (src/bfx_client.py): the treasury that funds flash loans *)
(* and the reservations taken out of it.                                   *)
(***************************************************************************)
Bank == [treasury |-> treasury, outstanding_flashloans |-> outstanding_flashloans]

\* reserve_flashloan_capital on the treasury values b.
ReserveOnto(b, loan_id, asset, amount) ==
    IF DLe(amount, Zero)
    THEN [ok |-> FALSE, err |-> "Flash loan reservation must be positive", bank |-> b]
    ELSE IF DGt(amount, b.treasury[asset])
    THEN [ok |-> FALSE, err |-> "Insufficient Bitfinex treasury", bank |-> b]
    ELSE [ ok |-> TRUE, err |-> "",
           bank |-> [ treasury |-> [b.treasury EXCEPT ![asset] = DSub(@, amount)],
                      outstanding_flashloans |->
                          Put(b.outstanding_flashloans, loan_id,
                              [asset |-> asset, amount |-> amount]) ] ]

\* settle_flashloan on the treasury values b: the repayment is added to the
\* balance whether or not a reservation was found under the loan id.
SettleOnto(b, loan_id, asset, repay_amount) ==
    [ ok |-> TRUE, err |-> "",
      bank |-> [ treasury |-> [b.treasury EXCEPT ![asset] = DAdd(@, repay_amount)],
                 outstanding_flashloans |-> Pop(b.outstanding_flashloans, loan_id) ] ]

\* cancel_flashloan_reservation on the treasury values b.
CancelOnto(b, loan_id) ==
    IF loan_id \notin DOMAIN b.outstanding_flashloans
    THEN [ok |-> TRUE, err |-> "", bank |-> b]
    ELSE LET reservation == b.outstanding_flashloans[loan_id] IN
         [ ok |-> TRUE, err |-> "",
           bank |-> [ treasury |-> [b.treasury EXCEPT
                                       ![reservation.asset] = DAdd(@, reservation.amount)],
                      outstanding_flashloans |-> Pop(b.outstanding_flashloans, loan_id) ] ]

ReserveFlashloanCapital(loan_id, asset, amount) ==
    LET out == ReserveOnto(Bank, loan_id, asset, amount) IN
    /\ steps < MaxSteps
    /\ steps' = steps + 1
    /\ treasury' = out.bank.treasury
    /\ outstanding_flashloans' = out.bank.outstanding_flashloans
    /\ last' = [ op |-> "reserve_flashloan_capital", ok |-> out.ok, err |-> out.err,
                 pre |-> Bank, ret |-> << >>,
                 args |-> [loan_id |-> loan_id, asset |-> asset, amount |-> amount] ]
    /\ UNCHANGED <<config, ledger, history, threads, bot>>

SettleFlashloan(loan_id, asset, repay_amount) ==
    LET out == SettleOnto(Bank, loan_id, asset, repay_amount) IN
    /\ steps < MaxSteps
    /\ steps' = steps + 1
    /\ treasury' = out.bank.treasury
    /\ outstanding_flashloans' = out.bank.outstanding_flashloans
    /\ last' = [ op |-> "settle_flashloan", ok |-> out.ok, err |-> out.err,
                 pre |-> Bank, ret |-> << >>,
                 args |-> [loan_id |-> loan_id, asset |-> asset,
                           repay_amount |-> repay_amount] ]
    /\ UNCHANGED <<config, ledger, history, threads, bot>>

CancelFlashloanReservation(loan_id) ==
    LET out == CancelOnto(Bank, loan_id) IN
    /\ steps < MaxSteps
    /\ steps' = steps + 1
    /\ treasury' = out.bank.treasury
    /\ outstanding_flashloans' = out.bank.outstanding_flashloans
    /\ last' = [ op |-> "cancel_flashloan_reservation", ok |-> out.ok, err |-> out.err,
                 pre |-> Bank, ret |-> << >>, args |-> [loan_id |-> loan_id] ]
    /\ UNCHANGED <<config, ledger, history, threads, bot>>

ReserveAmounts == {Zero, Dec(2, 2), Dec(4, 2)}

RepayAmounts == {Dec(101, 0)}

NextTreasury ==
    \/ \E i \in LoanIds, a \in Assets, x \in ReserveAmounts : ReserveFlashloanCapital(i, a, x)
    \/ \E i \in LoanIds, a \in Assets, x \in RepayAmounts : SettleFlashloan(i, a, x)
    \/ \E i \in LoanIds : CancelFlashloanReservation(i)

SpecTreasury == Init /\ [][NextTreasury]_vars


(***************************************************************************)
(* The flash-loan endpoints (src/flashloan.py).  ENHANCED_POOL is the pool *)
(* itself (src/amm_contract.py:737) and bfx_client the one treasury; an    *)
(* endpoint call runs from its first statement to its response.            *)
(***************************************************************************)
\* A pool that holds the 1000 LUSDt the endpoints ask for.
InitService == Construct(<<Dec(1, 0), Dec(1, 3), Dec(1, 3), 30, 100>>)

\* prepare_flashloan on the ledger values l, the loan taking the identifier id.
PrepareOnto(l, id, asset, amount) ==
    LET reserve  == IF asset = "LBTC" THEN l.lbtc_reserve ELSE l.lusdt_reserve
        max_loan == DMul(reserve, Dec(3, -1))
        fee      == DMul(amount, flash_fee)
        terms    == FlashLoanTerms(id, asset, amount, DAdd(amount, fee), fee)
    IN
    IF DLe(amount, Zero)
    THEN [ok |-> FALSE, err |-> "Amount must be positive", ledger |-> l, ret |-> << >>]
    ELSE IF asset \notin Assets
    THEN [ok |-> FALSE, err |-> "Unsupported asset", ledger |-> l, ret |-> << >>]
    ELSE IF DGt(amount, max_loan)
    THEN [ok |-> FALSE, err |-> "Loan exceeds max", ledger |-> l, ret |-> << >>]
    ELSE [ ok |-> TRUE, err |-> "", ret |-> terms,
           ledger |-> [l EXCEPT !.active_loans = Put(@, id, terms)] ]

\* cancel_flashloan on the ledger values l.
CancelLoanOnto(l, loan_id) ==
    [l EXCEPT !.active_loans = Pop(@, loan_id),
              !.cancelled = IF loan_id \in DOMAIN l.active_loans
                            THEN @ \cup {loan_id} ELSE @]

\* _validate_pool_health: the reason the pool cannot lend, "" when it can.
ValidatePoolHealth ==
    IF ~IsHealthy(GetState) THEN "Pool unhealthy"
    ELSE IF DLt(lbtc_reserve, Dec(1, -2)) THEN "Insufficient L-BTC reserves"
    ELSE IF DLt(lusdt_reserve, Dec(1, 3)) THEN "Insufficient L-USDT reserves"
    ELSE ""

\* What an endpoint leaves behind: the response, the ledger and the treasury.
Response(status, err, l, b, ret) ==
    [status |-> status, err |-> err, ledger |-> l, bank |-> b, ret |-> ret]

\* The pool and the treasury take the values a response holds, issued
\* identifiers having been drawn; the call is recorded.
Respond(op, args, issued, out) ==
    /\ steps < MaxSteps
    /\ steps' = steps + 1
    /\ lbtc_reserve' = out.ledger.lbtc_reserve
    /\ lusdt_reserve' = out.ledger.lusdt_reserve
    /\ accumulated_fees' = out.ledger.accumulated_fees
    /\ active_loans' = out.ledger.active_loans
    /\ settled' = out.ledger.settled
    /\ cancelled' = out.ledger.cancelled
    /\ accruals' = [i \in LoanIds |->
                       IF i \in out.ledger.settled \ settled THEN accruals[i] + 1
                       ELSE accruals[i]]
    /\ next_loan' = next_loan + issued
    /\ treasury' = out.bank.treasury
    /\ outstanding_flashloans' = out.bank.outstanding_flashloans
    /\ last' = [ op |-> op, ok |-> out.status = 200, status |-> out.status,
                 err |-> out.err, pre |-> Ledger, bank |-> Bank,
                 args |-> args, ret |-> out.ret ]
    /\ UNCHANGED <<config, debt_amount, btc_price, lp_supply, yb_supply, yb_holders,
                   threads, bot>>

\* flashloan_request that answers a failed reservation without cancelling the
\* loan it has prepared.
RequestOutcomeKeepsLoan(asset, amount) ==
    LET health   == ValidatePoolHealth
        reserve  == IF asset = "LBTC" THEN lbtc_reserve ELSE lusdt_reserve
        max_loan == DMul(reserve, Dec(3, -1))
        prepared == PrepareOnto(Ledger, next_loan, asset, amount)
        reserved == ReserveOnto(Bank, next_loan, asset, amount)
    IN
    IF health # "" THEN Response(503, health, Ledger, Bank, << >>)
    ELSE IF asset \notin Assets THEN Response(400, "Unsupported asset", Ledger, Bank, << >>)
    ELSE IF DLe(amount, Zero)
    THEN Response(400, "Amount must be positive", Ledger, Bank, << >>)
    ELSE IF DGt(amount, max_loan)
    THEN Response(400, "Requested amount exceeds maximum", Ledger, Bank, << >>)
    ELSE IF ~prepared.ok THEN Response(400, prepared.err, Ledger, Bank, << >>)
    ELSE IF ~reserved.ok
    THEN Response(503, "Bitfinex liquidity unavailable", prepared.ledger, Bank,
                  prepared.ret)
    ELSE Response(200, "", prepared.ledger, reserved.bank, prepared.ret)

\* flashloan_request: the response, and what it leaves in pool and treasury.
RequestOutcome(asset, amount) ==
    LET health   == ValidatePoolHealth
        reserve  == IF asset = "LBTC" THEN lbtc_reserve ELSE lusdt_reserve
        max_loan == DMul(reserve, Dec(3, -1))
        prepared == PrepareOnto(Ledger, next_loan, asset, amount)
        reserved == ReserveOnto(Bank, next_loan, asset, amount)
    IN
    IF health # "" THEN Response(503, health, Ledger, Bank, << >>)
    ELSE IF asset \notin Assets THEN Response(400, "Unsupported asset", Ledger, Bank, << >>)
    ELSE IF DLe(amount, Zero)
    THEN Response(400, "Amount must be positive", Ledger, Bank, << >>)
    ELSE IF DGt(amount, max_loan)
    THEN Response(400, "Requested amount exceeds maximum", Ledger, Bank, << >>)
    ELSE IF ~prepared.ok THEN Response(400, prepared.err, Ledger, Bank, << >>)
    ELSE IF ~reserved.ok
    THEN Response(503, "Bitfinex liquidity unavailable",
                  CancelLoanOnto(prepared.ledger, next_loan), Bank, prepared.ret)
    ELSE Response(200, "", prepared.ledger, reserved.bank, prepared.ret)

FlashloanRequest(asset, amount) ==
    \E out \in {RequestOutcome(asset, amount)} :
    /\ next_loan <= MaxLoans
    /\ Respond("flashloan_request", [asset |-> asset, amount |-> amount],
               IF out.ret = << >> THEN 0 ELSE 1, out)

\* flashloan_submit for the decoded payload: a payload that is not a flash
\* loan and a loan the pool does not hold are turned away; a payload that
\* raises in sign_and_send_pset has its loan and reservation cancelled; the
\* repayment of one that went through is settled with the treasury.
SubmitOutcome(payload) ==
    LET loan_id == payload.flashloan.loan_id IN
    IF payload.type # "flashloan"
    THEN Response(400, "Invalid PSET: not a flash loan transaction", Ledger, Bank, << >>)
    ELSE IF loan_id \notin DOMAIN active_loans
    THEN Response(404, "Unknown or expired loan ID", Ledger, Bank, << >>)
    ELSE CHOOSE out \in
        { IF ~sent.ok
          THEN Response(400, sent.err, CancelLoanOnto(sent.ledger, loan_id),
                        CancelOnto(Bank, loan_id).bank, << >>)
          ELSE Response(200, "", sent.ledger,
                        SettleOnto(Bank, loan_id, payload.flashloan.repay_asset,
                                   payload.flashloan.repay_amount).bank,
                        sent.ret) :
              sent \in {PsetOnto(Ledger, payload)} } : TRUE

FlashloanSubmit(payload) ==
    \E out \in {SubmitOutcome(payload)} : Respond("flashloan_submit", payload, 0, out)

FlashloanCancel(loan_id) ==
    \E out \in { IF loan_id \notin DOMAIN active_loans
                  THEN Response(404, "Unknown loan ID", Ledger, Bank, << >>)
                  ELSE Response(200, "", CancelLoanOnto(Ledger, loan_id),
                                CancelOnto(Bank, loan_id).bank, << >>) } :
        Respond("flashloan_cancel", [loan_id |-> loan_id], 0, out)

\* asset and amount of the requests: within the cap and the treasury, above
\* the cap, nothing, and LBTC, of which the treasury holds none.
Requests ==
    { [asset |-> "LUSDt", amount |-> Dec(3, 2)],
      [asset |-> "LUSDt", amount |-> Dec(4, 2)],
      [asset |-> "LUSDt", amount |-> Zero],
      [asset |-> "LBTC", amount |-> Dec(1, -1)] }

\* The payloads submitted: the template of a loan of 300 LUSDt with its
\* repayment of 303 or with one of 1, with or without a swap first, and a
\* payload that is a swap.
Submissions ==
    { [ type |-> "flashloan",
        flashloan |-> [loan_id |-> i, repay_asset |-> "LUSDt", repay_amount |-> r],
        swaps |-> s ] :
        i \in LoanIds, r \in {Dec(303, 0), Dec(1, 0)},
        s \in { << >>, << [input_asset |-> "LUSDt", amount_in |-> Dec(1, 2)] >> } }
    \cup { [ type |-> "swap", swap |-> [input_asset |-> "LUSDt", amount_in |-> Dec(1, 2)],
             flashloan |-> [loan_id |-> 0] ] }

NextService ==
    \/ \E r \in Requests : FlashloanRequest(r.asset, r.amount)
    \/ \E p \in Submissions : FlashloanSubmit(p)
    \/ \E i \in LoanIds : FlashloanCancel(i)

SpecService == InitService /\ [][NextService]_vars


(***************************************************************************)
(* The rebalancing bot (src/rebalance_service.py).  One iteration of       *)
(* rebalance_loop runs from the poll to the sleep without yielding; the    *)
(* local variable terms keeps its value from one iteration to the next and *)
(* has none until prepare_flashloan has returned once.                     *)
(***************************************************************************)
\* rebalance_via_flashloan on the ledger values l.
AdjustOnto(l, adjustment, action) ==
    LET new_debt  == IF action = "add_debt" THEN DAdd(l.debt_amount, adjustment)
                     ELSE DSub(l.debt_amount, adjustment)
        new_lusdt == IF action = "add_debt" THEN DAdd(l.lusdt_reserve, adjustment)
                     ELSE DSub(l.lusdt_reserve, adjustment)
        written   == [l EXCEPT !.debt_amount = new_debt, !.lusdt_reserve = new_lusdt]
        state     == PoolState(l.lbtc_reserve, new_lusdt, new_debt, l.btc_price,
                               l.lp_supply, l.yb_supply)
    IN
    IF action \notin {"add_debt", "remove_debt"}
    THEN [ok |-> FALSE, err |-> "Unknown action", ledger |-> l]
    ELSE IF action = "remove_debt" /\ DLt(l.lusdt_reserve, adjustment)
    THEN [ok |-> FALSE, err |-> "Insufficient USDT to remove", ledger |-> l]
    ELSE IF IsHealthy(state) THEN [ok |-> TRUE, err |-> "", ledger |-> written]
    ELSE [ok |-> FALSE, err |-> "Rebalancing violates covenant", ledger |-> written]

\* What an iteration leaves: the error raised in it ("" for none), whether it
\* left the loop, the pool, the treasury and the value of terms.
Round(err, escaped, l, b, terms) ==
    [err |-> err, escaped |-> escaped, ledger |-> l, bank |-> b, terms |-> terms]

\* The except clauses: terms.loan_id is read, which raises UnboundLocalError
\* out of the handler and out of the loop while terms has no value; a loan
\* still active under that id is cancelled with its reservation.
Handled(err, l, b, terms) ==
    IF terms = Unbound THEN Round("UnboundLocalError", TRUE, l, b, terms)
    ELSE IF terms.loan_id \in DOMAIN l.active_loans
    THEN Round(err, FALSE, CancelLoanOnto(l, terms.loan_id),
               CancelOnto(b, terms.loan_id).bank, terms)
    ELSE Round(err, FALSE, l, b, terms)

\* One pass through the body of the while loop.
Iteration ==
    CHOOSE round \in {
    IF opportunity = NoOpportunity THEN Round("", FALSE, Ledger, Bank, bot.terms)
    ELSE
    LET available == treasury["LUSDt"]
        borrow    == DMin(opportunity.debt_adjustment, available)
    IN
    IF DLe(borrow, Dec(1, 2)) THEN Round("", FALSE, Ledger, Bank, bot.terms)
    ELSE CHOOSE tried \in {
    IF ~prepared.ok THEN Handled(prepared.err, Ledger, Bank, bot.terms)
    ELSE
    LET terms      == prepared.ret
        reserved   == ReserveOnto(Bank, terms.loan_id, terms.borrow_asset,
                                  terms.borrow_amount)
        settlement == SettleOnto(reserved.bank, terms.loan_id, terms.repay_asset,
                                 terms.repay_amount)
    IN
    IF ~reserved.ok THEN Handled(reserved.err, prepared.ledger, Bank, terms)
    ELSE CHOOSE executed \in {
    IF ~adjusted.ok THEN Handled(adjusted.err, adjusted.ledger, reserved.bank, terms)
    ELSE CHOOSE broadcast \in {
    IF ~sent.ok THEN Handled(sent.err, sent.ledger, reserved.bank, terms)
    ELSE Round("", FALSE, sent.ledger, settlement.bank, terms)
        : sent \in {CompleteOnto(adjusted.ledger, terms.loan_id, terms.repay_amount)} } : TRUE
        : adjusted \in {AdjustOnto(prepared.ledger, borrow, opportunity.action)} } : TRUE
        : prepared \in {PrepareOnto(Ledger, next_loan, "LUSDt", borrow)} } : TRUE
        : opportunity \in {Opportunity(GetState)} } : TRUE

RebalanceLoop ==
    \E out \in {Iteration} :
    /\ bot.pc = "poll"
    /\ next_loan <= MaxLoans
    /\ lusdt_reserve' = out.ledger.lusdt_reserve
    /\ debt_amount' = out.ledger.debt_amount
    /\ accumulated_fees' = out.ledger.accumulated_fees
    /\ active_loans' = out.ledger.active_loans
    /\ settled' = out.ledger.settled
    /\ cancelled' = out.ledger.cancelled
    /\ accruals' = [i \in LoanIds |->
                       IF i \in out.ledger.settled \ settled THEN accruals[i] + 1
                       ELSE accruals[i]]
    /\ next_loan' = IF out.terms = bot.terms THEN next_loan ELSE next_loan + 1
    /\ treasury' = out.bank.treasury
    /\ outstanding_flashloans' = out.bank.outstanding_flashloans
    /\ bot' = [pc |-> IF out.escaped THEN "stopped" ELSE "poll", terms |-> out.terms]
    /\ last' = [ op |-> "rebalance_loop", ok |-> out.err = "", err |-> out.err,
                 pre |-> Ledger, bank |-> Bank, args |-> bot.terms,
                 ret |-> Opportunity(GetState) ]
    /\ UNCHANGED <<config, lbtc_reserve, btc_price, lp_supply, yb_supply, yb_holders,
                   threads, steps>>

\* Oracle prices between the bot's polls: a deviation within the tolerance,
\* one the treasury and the loan cap can cover, one beyond the cap, and one
\* whose adjustment the covenant refuses.
BotPrices == {Dec(11, 2), Dec(13, 2), Dec(2, 3), Dec(5, 2)}

NextBot ==
    \/ \E p \in BotPrices : UpdatePrice(p)
    \/ RebalanceLoop

SpecBot == InitService /\ [][NextBot]_vars


(***************************************************************************)
(* ybBTC on its own: deposits and withdrawals of every kind of amount,     *)
(* with liquidity added by others, the oracle moving and the debt adjusted *)
(* in between.                                                             *)
(***************************************************************************)
YbDeposits == {Dec(1, 0), Dec(2, 0), Zero}

YbWithdrawals == {Dec(1, 0), Dec(2, 0), Dec(3, 0), Zero, Dec(-1, 0)}

YbPrices == {Dec(8, 1)}

\* Adjustments that bring a pool holding a deposit of 2 to the upper edge of
\* the safety band: at the constructor's price, and after the oracle fell.
YbAdjustments ==
    { [adjustment |-> Dec(4, 1), action |-> "add_debt"],
      [adjustment |-> Dec(28, 0), action |-> "remove_debt"] }

InitYb == Construct(<<Dec(1, 0), Dec(1, 2), Dec(1, 2), 30, 100>>)

\* withdraw_yb of exactly the tokens the last deposit_btc_for_yb minted, by
\* the depositor; the record keeps the ledger that deposit found.
WithdrawDeposited ==
    /\ last.op = "deposit_btc_for_yb"
    /\ last.ok
    /\ Withdraw(last.ret, last.args.depositor,
                [yb_tokens |-> last.ret, holder |-> last.args.depositor,
                 before |-> last.pre])

NextYb ==
    \/ \E x \in YbDeposits, h \in Holders : DepositBtcForYb(x, h)
    \/ \E x \in YbWithdrawals, h \in Holders : WithdrawYb(x, h)
    \/ WithdrawDeposited
    \/ \E p \in LiquidityAmounts : AddLiquidity(p[1], p[2])
    \/ \E p \in YbPrices : UpdatePrice(p)
    \/ \E c \in YbAdjustments : RebalanceViaFlashloan(c.adjustment, c.action)

SpecYb == InitYb /\ [][NextYb]_vars


(***************************************************************************)
(* Properties.                                                             *)
(***************************************************************************)
\* The closed safety band of the debt ratio.
InBand(r) == DLe(Dec(625, -4), r) /\ DLe(r, Dec(53125, -5))

\* reserve_a * reserve_b as a number, without context rounding.
ExactProduct(a, b) == Norm(a.c * b.c, a.e + b.e)

IsCall(op) == last.op = op

\* The ledger an adjust_debt call would leave if it were applied.
AdjustedState(pre, args) ==
    PoolState(pre.lbtc_reserve,
              IF args.action = "add_debt" THEN DAdd(pre.lusdt_reserve, args.adjustment)
              ELSE DSub(pre.lusdt_reserve, args.adjustment),
              IF args.action = "add_debt" THEN DAdd(pre.debt_amount, args.adjustment)
              ELSE DSub(pre.debt_amount, args.adjustment),
              pre.btc_price, pre.lp_supply, pre.yb_supply)

\* C1: an adjust_debt call whose result would put debt_ratio outside
\* [0.0625, 0.53125] fails and leaves reserve_a, reserve_b and debt exactly
\* as they were before the call.
C1_SafetyBandRollback ==
    (IsCall("rebalance_via_flashloan") /\ last.args.action \in Actions
        /\ ~InBand(DebtRatio(AdjustedState(last.pre, last.args))))
    => /\ ~last.ok
       /\ lbtc_reserve = last.pre.lbtc_reserve
       /\ lusdt_reserve = last.pre.lusdt_reserve
       /\ debt_amount = last.pre.debt_amount

\* C2: after every successful execute_swap, reserve_a * reserve_b is at least
\* what it was before the call, and strictly more when the fee rate is not zero.
C2_InvariantNonDecreasing ==
    (IsCall("execute_swap") /\ last.ok)
    => LET old_k == ExactProduct(last.pre.lbtc_reserve, last.pre.lusdt_reserve)
           new_k == ExactProduct(lbtc_reserve, lusdt_reserve)
       IN  /\ DGe(new_k, old_k)
           /\ swap_fee # Zero => DGt(new_k, old_k)

\* C3: complete_flashloan with repaid < repay_amount fails with insufficient
\* repayment and leaves the ledger unchanged: the loan is still outstanding
\* and the accrued fees are what they were.
C3_InsufficientRepaymentKeepsLoan ==
    (IsCall("complete_flashloan") /\ last.args.loan_id \in DOMAIN last.pre.active_loans
        /\ DLt(last.args.repaid, last.pre.active_loans[last.args.loan_id].repay_amount))
    => /\ ~last.ok
       /\ last.err = "Insufficient repayment"
       /\ active_loans = last.pre.active_loans
       /\ accumulated_fees = last.pre.accumulated_fees

\* C4: once complete_flashloan has succeeded for an id, every later
\* complete_flashloan with that id fails with unknown loan and accrues no fee.
C4_SettledLoanIsSingleUse ==
    /\ settled \cap DOMAIN active_loans = {}
    /\ (IsCall("complete_flashloan") /\ last.args.loan_id \in last.pre.settled)
       => /\ ~last.ok
          /\ last.err = "Unknown loan"
          /\ accumulated_fees = last.pre.accumulated_fees

C4_Witness ==
    /\ IsCall("complete_flashloan")
    /\ last.args.loan_id \in last.pre.settled
    /\ DGe(last.args.repaid, Dec(1, 3))

\* C5: each loan is terminated once: after cancel_flashloan removed a loan,
\* complete_flashloan on its id fails with unknown loan and accrues no fee,
\* no id is both settled and cancelled, and the fee of a loan is accrued at
\* most once.
C5_LoanTerminatedOnce ==
    /\ cancelled \cap DOMAIN active_loans = {}
    /\ settled \cap cancelled = {}
    /\ \A i \in LoanIds : accruals[i] <= 1
    /\ (IsCall("complete_flashloan") /\ last.args.loan_id \in last.pre.cancelled)
       => /\ ~last.ok
          /\ last.err = "Unknown loan"
          /\ accumulated_fees = last.pre.accumulated_fees

C5_Witness ==
    /\ IsCall("complete_flashloan")
    /\ last.args.loan_id \in last.pre.cancelled
    /\ DGe(last.args.repaid, Dec(1, 3))

\* C6: every entry of active_loans satisfies repay_amount > principal > 0.
C6_LoanRepayExceedsPrincipal ==
    \A i \in DOMAIN active_loans :
        /\ DGt(active_loans[i].repay_amount, active_loans[i].borrow_amount)
        /\ DGt(active_loans[i].borrow_amount, Zero)

\* C7: whenever lp_supply > 0, reserve_a > 0 and reserve_b > 0.
C7_ReservesPositiveWhileShares ==
    DGt(lp_supply, Zero) => DGt(lbtc_reserve, Zero) /\ DGt(lusdt_reserve, Zero)

\* C8: reserve_a, reserve_b and debt are never negative.
C8_NonNegativeQuantities ==
    /\ DGe(lbtc_reserve, Zero)
    /\ DGe(lusdt_reserve, Zero)
    /\ DGe(debt_amount, Zero)

\* C9: whenever rebalance_via_flashloan returns successfully the resulting
\* debt_ratio lies in the closed band [0.0625, 0.53125].
C9_AdjustDebtEndsInBand ==
    (IsCall("rebalance_via_flashloan") /\ last.ok) => InBand(DebtRatio(GetState))

\* A successful adjustment that ends exactly on the lower boundary.
C9_Witness ==
    /\ IsCall("rebalance_via_flashloan")
    /\ last.ok
    /\ DebtRatio(GetState) = Dec(625, -4)
    /\ debt_amount # last.pre.debt_amount

\* C10: whenever add_liquidity or remove_liquidity returns successfully the
\* resulting debt_ratio lies in the closed band [0.0625, 0.53125].
C10_LiquidityEndsInBand ==
    ((IsCall("add_liquidity") \/ IsCall("remove_liquidity")) /\ last.ok)
    => InBand(DebtRatio(GetState))

\* C11: a swap of amount_in of one asset followed by the swap of the received
\* amount_out back returns at most amount_in of the first asset, and strictly
\* less when the swap fee is not zero.
C11_RoundTripBound ==
    (IsCall("execute_swap") /\ last.ok /\ "sent" \in DOMAIN last.args)
    => /\ DLe(last.ret.amount_out, last.args.sent)
       /\ (swap_fee # Zero => DLt(last.ret.amount_out, last.args.sent))

\* C12: add_liquidity(a, b) immediately followed by remove_liquidity of
\* exactly the shares it minted returns (a', b') with a' <= a and b' <= b.
C12_LiquidityInverse ==
    (IsCall("remove_liquidity") /\ last.ok /\ "lbtc_amount" \in DOMAIN last.args)
    => /\ DLe(last.ret[1], last.args.lbtc_amount)
       /\ DLe(last.ret[2], last.args.lusdt_amount)

\* a + b as a number, without context rounding.
ExactSum(a, b) ==
    LET m == IF a.e < b.e THEN a.e ELSE b.e
    IN  Norm(a.c * Pow10(a.e - m) + b.c * Pow10(b.e - m), m)

\* C13: a successful adjust_debt changes debt and reserve_b by the same
\* amount (+amount on an increase, -amount on a decrease, so that
\* reserve_b - debt is preserved), a decrease succeeds only when reserve_b was
\* at least amount, and reserve_a, lp_supply, oracle_price, the accrued fees
\* and outstanding_loans stay as they were.
C13_AdjustDebtFrame ==
    (IsCall("rebalance_via_flashloan") /\ last.ok)
    => LET pre    == last.pre
           amount == last.args.adjustment
           delta  == IF last.args.action = "add_debt" THEN amount ELSE DNeg(amount)
       IN  /\ debt_amount = ExactSum(pre.debt_amount, delta)
           /\ lusdt_reserve = ExactSum(pre.lusdt_reserve, delta)
           /\ ExactSum(lusdt_reserve, DNeg(debt_amount))
                  = ExactSum(pre.lusdt_reserve, DNeg(pre.debt_amount))
           /\ (last.args.action = "remove_debt" => DGe(pre.lusdt_reserve, amount))
           /\ lbtc_reserve = pre.lbtc_reserve
           /\ lp_supply = pre.lp_supply
           /\ btc_price = pre.btc_price
           /\ accumulated_fees = pre.accumulated_fees
           /\ active_loans = pre.active_loans

\* C14: adjust_debt with amount <= 0, in either direction, is rejected as an
\* invalid amount and leaves debt and both reserves unchanged.
C14_NonPositiveAdjustmentRejected ==
    (IsCall("rebalance_via_flashloan") /\ DLe(last.args.adjustment, Zero))
    => /\ ~last.ok
       /\ last.err = "Amount must be positive"
       /\ debt_amount = last.pre.debt_amount
       /\ lbtc_reserve = last.pre.lbtc_reserve
       /\ lusdt_reserve = last.pre.lusdt_reserve

\* C15: for either input asset and amount_in > 0 on a pool with positive
\* reserves, the quote has fee_paid = amount_in * fee_rate and
\* amount_out = reserve_out * g / (reserve_in + g) with
\* g = amount_in * (1 - fee_rate), and amount_out is strictly less than
\* reserve_out.
C15_QuoteFormula ==
    (IsCall("execute_swap") /\ last.ok)
    => LET quote       == last.ret
           reserve_in  == IF quote.input_asset = "LBTC" THEN last.pre.lbtc_reserve
                          ELSE last.pre.lusdt_reserve
           reserve_out == IF quote.input_asset = "LBTC" THEN last.pre.lusdt_reserve
                          ELSE last.pre.lbtc_reserve
           g           == DMul(quote.amount_in, DSub(One, swap_fee))
       IN  /\ quote.fee_paid = DMul(quote.amount_in, swap_fee)
           /\ quote.amount_out = DDiv(DMul(reserve_out, g), DAdd(reserve_in, g))
           /\ DLt(quote.amount_out, reserve_out)

\* C16: execute_swap (and the quote_swap it calls) fails with its own error for
\* each of amount_in <= 0 (invalid amount), an asset that is neither of the
\* pool's two (unknown asset), a reserve equal to zero (empty pool) and a
\* computed output of zero (zero output), the first that applies naming the
\* error; and whenever execute_swap fails, the reserves, the accrued fees, debt
\* and lp_supply are as they were.
C16_SwapErrors ==
    IsCall("execute_swap")
    => LET asset       == last.args.input_asset
           amount_in   == last.args.amount_in
           reserve_in  == IF asset = "LBTC" THEN last.pre.lbtc_reserve
                          ELSE last.pre.lusdt_reserve
           reserve_out == IF asset = "LBTC" THEN last.pre.lusdt_reserve
                          ELSE last.pre.lbtc_reserve
           g           == DMul(amount_in, DSub(One, swap_fee))
           amount_out  == DDiv(DMul(reserve_out, g), DAdd(reserve_in, g))
           valid       == DGt(amount_in, Zero) /\ asset \in Assets
       IN  /\ DLe(amount_in, Zero)
                  => ~last.ok /\ last.err = "Amount must be positive"
           /\ (DGt(amount_in, Zero) /\ asset \notin Assets)
                  => ~last.ok /\ last.err = "Unknown asset"
           /\ (valid /\ (reserve_in = Zero \/ reserve_out = Zero))
                  => ~last.ok /\ last.err = "Pool has zero reserves"
           /\ (valid /\ DGt(reserve_in, Zero) /\ DGt(reserve_out, Zero)
                     /\ amount_out = Zero)
                  => ~last.ok /\ last.err = "Output amount would be zero"
           /\ ~last.ok => /\ lbtc_reserve = last.pre.lbtc_reserve
                          /\ lusdt_reserve = last.pre.lusdt_reserve
                          /\ accumulated_fees = last.pre.accumulated_fees
                          /\ debt_amount = last.pre.debt_amount
                          /\ lp_supply = last.pre.lp_supply

\* A swap of a positive amount of a pool asset into positive reserves is
\* refused because nothing would come out (the fee takes the whole input).
C16_Witness ==
    /\ IsCall("execute_swap")
    /\ ~last.ok
    /\ last.err = "Output amount would be zero"
    /\ DGt(last.args.amount_in, Zero)
    /\ last.args.input_asset \in Assets
    /\ DGt(lbtc_reserve, Zero) /\ DGt(lusdt_reserve, Zero)

\* C17: a successful execute_swap leaves the reserves equal to the reserves
\* of the quote it returns, price_after equal to the new reserve_b / reserve_a
\* of the ledger, the accrued fee of the input asset grown by exactly fee_paid
\* and that of the other asset unchanged, and debt, lp_supply, oracle_price
\* and outstanding_loans unchanged.
C17_SwapFrame ==
    (IsCall("execute_swap") /\ last.ok)
    => LET quote == last.ret
           pre   == last.pre
       IN  /\ lbtc_reserve = quote.new_state.lbtc_reserve
           /\ lusdt_reserve = quote.new_state.lusdt_reserve
           /\ quote.price_after = Price
           /\ accumulated_fees[quote.input_asset]
                  = DAdd(pre.accumulated_fees[quote.input_asset], quote.fee_paid)
           /\ accumulated_fees[quote.output_asset]
                  = pre.accumulated_fees[quote.output_asset]
           /\ debt_amount = pre.debt_amount
           /\ lp_supply = pre.lp_supply
           /\ btc_price = pre.btc_price
           /\ active_loans = pre.active_loans

\* C18: add_liquidity(a, b) with a, b > 0 mints sqrt(a * b) shares when
\* lp_supply is 0 and lp_supply * min(a / reserve_a, b / reserve_b) shares
\* otherwise, adds a and b to the reserves and the minted shares to
\* lp_supply; so a deposit with more of one asset than the pool ratio asks
\* for mints no more than the deposit balanced on either of its two amounts.
C18_MintedShares ==
    (IsCall("add_liquidity") /\ last.ok)
    => LET pre     == last.pre
           a       == last.args.lbtc_amount
           b       == last.args.lusdt_amount
           ratio_a == DDiv(a, pre.lbtc_reserve)
           ratio_b == DDiv(b, pre.lusdt_reserve)
           minted  == last.ret
       IN  /\ DGt(a, Zero) /\ DGt(b, Zero)
           /\ IF pre.lp_supply = Zero
              THEN minted = DSqrt(DMul(a, b))
              ELSE /\ minted = DMul(pre.lp_supply,
                                    IF DLe(ratio_a, ratio_b) THEN ratio_a ELSE ratio_b)
                   /\ DLe(minted, DMul(pre.lp_supply, ratio_a))
                   /\ DLe(minted, DMul(pre.lp_supply, ratio_b))
           /\ lbtc_reserve = DAdd(pre.lbtc_reserve, a)
           /\ lusdt_reserve = DAdd(pre.lusdt_reserve, b)
           /\ lp_supply = DAdd(pre.lp_supply, minted)

\* A deposit into a pool with shares outstanding that supplies the two assets
\* in another ratio than the reserves.
C18_Witness ==
    /\ IsCall("add_liquidity")
    /\ last.ok
    /\ last.pre.lp_supply # Zero
    /\ DDiv(last.args.lbtc_amount, last.pre.lbtc_reserve)
           # DDiv(last.args.lusdt_amount, last.pre.lusdt_reserve)
    /\ lp_supply # last.pre.lp_supply

\* C19: prepare_flashloan succeeds only if amount > 0, the asset is one of
\* the pool's two and amount <= 0.3 * reserve[asset] at the time of the call;
\* otherwise it fails, and outstanding_loans and every other field of the
\* ledger are as they were.
C19_LoanPreconditions ==
    IsCall("prepare_flashloan")
    => LET asset   == last.args.asset
           amount  == last.args.amount
           reserve == IF asset = "LBTC" THEN last.pre.lbtc_reserve
                      ELSE last.pre.lusdt_reserve
           allowed == /\ DGt(amount, Zero)
                      /\ asset \in Assets
                      /\ DLe(amount, DMul(reserve, Dec(3, -1)))
       IN  /\ last.ok => allowed
           /\ ~allowed => ~last.ok
           /\ ~last.ok => Ledger = last.pre

\* A loan above the cap is refused while another loan is outstanding and the
\* reserves have been moved by a swap since the pool was built.
C19_Witness ==
    /\ IsCall("prepare_flashloan")
    /\ ~last.ok
    /\ last.err = "Loan exceeds max"
    /\ DOMAIN active_loans # {}
    /\ accumulated_fees # [a \in Assets |-> Zero]

\* C20: a successful prepare_flashloan adds exactly one record to
\* outstanding_loans, under an identifier that was not in the map, with
\* fee = amount * flash_fee_rate and repay_amount = amount + fee, and leaves
\* the reserves, debt, lp_supply, oracle_price, the accrued fees and every
\* other loan record as they were.
C20_OpenLoanFrame ==
    (IsCall("prepare_flashloan") /\ last.ok)
    => LET pre   == last.pre
           terms == last.ret
           id    == terms.loan_id
       IN  /\ id \notin DOMAIN pre.active_loans
           /\ DOMAIN active_loans = DOMAIN pre.active_loans \cup {id}
           /\ active_loans[id] = terms
           /\ terms.borrow_asset = last.args.asset
           /\ terms.repay_asset = last.args.asset
           /\ terms.borrow_amount = last.args.amount
           /\ terms.fee_amount = DMul(last.args.amount, flash_fee)
           /\ terms.repay_amount = DAdd(last.args.amount, terms.fee_amount)
           /\ \A i \in DOMAIN pre.active_loans : active_loans[i] = pre.active_loans[i]
           /\ lbtc_reserve = pre.lbtc_reserve
           /\ lusdt_reserve = pre.lusdt_reserve
           /\ debt_amount = pre.debt_amount
           /\ lp_supply = pre.lp_supply
           /\ btc_price = pre.btc_price
           /\ accumulated_fees = pre.accumulated_fees

\* A second loan, with a fee, is opened while the first is still outstanding.
C20_Witness ==
    /\ IsCall("prepare_flashloan")
    /\ last.ok
    /\ DOMAIN last.pre.active_loans # {}
    /\ last.ret.fee_amount # Zero
    /\ DLt(last.args.amount, last.ret.repay_amount)

\* C21: complete_flashloan on an outstanding id with repaid >= repay_amount
\* succeeds, removes exactly that loan, grows the accrued fee of the loan's
\* asset by exactly the loan's fee whatever was repaid above repay_amount,
\* returns that fee, and leaves the reserves, debt, lp_supply, the accrued fee
\* of the other asset and every other loan as they were.
C21_SettleFrame ==
    IsCall("complete_flashloan")
    => LET pre == last.pre
           id  == last.args.loan_id
       IN  /\ (id \in DOMAIN pre.active_loans
                  /\ DGe(last.args.repaid, pre.active_loans[id].repay_amount))
              => last.ok
           /\ last.ok
              => LET terms == pre.active_loans[id]
                     other == CHOOSE a \in Assets : a # terms.borrow_asset
                 IN  /\ id \in DOMAIN pre.active_loans
                     /\ DGe(last.args.repaid, terms.repay_amount)
                     /\ DOMAIN active_loans = DOMAIN pre.active_loans \ {id}
                     /\ \A i \in DOMAIN active_loans : active_loans[i] = pre.active_loans[i]
                     /\ terms.fee_amount = DMul(terms.borrow_amount, flash_fee)
                     /\ accumulated_fees[terms.borrow_asset]
                            = DAdd(pre.accumulated_fees[terms.borrow_asset], terms.fee_amount)
                     /\ accumulated_fees[other] = pre.accumulated_fees[other]
                     /\ last.ret = terms.fee_amount
                     /\ lbtc_reserve = pre.lbtc_reserve
                     /\ lusdt_reserve = pre.lusdt_reserve
                     /\ debt_amount = pre.debt_amount
                     /\ lp_supply = pre.lp_supply

\* A loan with a fee is settled with more than its repay_amount while another
\* loan stays outstanding.
C21_Witness ==
    /\ IsCall("complete_flashloan")
    /\ last.ok
    /\ DGt(last.args.repaid, last.pre.active_loans[last.args.loan_id].repay_amount)
    /\ last.ret # Zero
    /\ DOMAIN active_loans # {}

\* C22: cancel_flashloan(id) completes without error; when id is outstanding
\* it removes that record and leaves the reserves, debt, the accrued fees and
\* every other loan as they were, and when id is not outstanding it leaves the
\* whole ledger as it was.
C22_CancelFrame ==
    IsCall("cancel_flashloan")
    => LET pre == last.pre
           id  == last.args.loan_id
       IN  /\ last.ok
           /\ DOMAIN active_loans = DOMAIN pre.active_loans \ {id}
           /\ \A i \in DOMAIN active_loans : active_loans[i] = pre.active_loans[i]
           /\ lbtc_reserve = pre.lbtc_reserve
           /\ lusdt_reserve = pre.lusdt_reserve
           /\ debt_amount = pre.debt_amount
           /\ btc_price = pre.btc_price
           /\ lp_supply = pre.lp_supply
           /\ yb_supply = pre.yb_supply
           /\ yb_holders = pre.yb_holders
           /\ accumulated_fees = pre.accumulated_fees
           /\ settled = pre.settled
           /\ id \notin DOMAIN pre.active_loans => Ledger = pre

\* One of two outstanding loans is cancelled and the other stays.
C22_Witness ==
    /\ IsCall("cancel_flashloan")
    /\ last.args.loan_id \in DOMAIN last.pre.active_loans
    /\ last.args.loan_id \notin DOMAIN active_loans
    /\ DOMAIN active_loans # {}

\* C23: in every reachable ledger state debt_ratio and the leverage are
\* defined, no division by zero being taken: debt_ratio is 0 when pool_value
\* is 0 and debt / pool_value otherwise, and the leverage is the sentinel 999
\* when debt_ratio has reached 0.99 and 1 / (1 - debt_ratio), with a divisor
\* other than zero, below that.
C23_DerivedValuesDefined ==
    LET s          == GetState
        pool_value == PoolValueUsd(s)
        debt_ratio == DebtRatio(s)
        leverage   == LeverageMultiplier(s)
    IN  /\ debt_ratio # DivisionTrap
        /\ leverage # DivisionTrap
        /\ pool_value = Zero => debt_ratio = Zero
        /\ pool_value # Zero => debt_ratio = DDiv(s.debt_amount, pool_value)
        /\ DSub(One, debt_ratio) = Zero => leverage = Dec(999, 0)
        /\ DGe(debt_ratio, Dec(99, -2)) => leverage = Dec(999, 0)
        /\ DLt(debt_ratio, Dec(99, -2))
           => /\ DSub(One, debt_ratio) # Zero
              /\ leverage = DDiv(One, DSub(One, debt_ratio))

\* The oracle price has fallen to nothing and debt equals the pool value:
\* debt_ratio is exactly 1, where 1 / (1 - debt_ratio) has no value.
C23_Witness ==
    /\ IsCall("update_price")
    /\ PoolValueUsd(GetState) # Zero
    /\ DebtRatio(GetState) = One
    /\ LeverageMultiplier(GetState) = Dec(999, 0)

\* C24: a pool constructed with reserves and an oracle price that give a
\* positive pool value starts with debt equal to
\* 0.5 * (reserve_a * oracle_price + reserve_b), a debt_ratio of exactly 0.5,
\* a leverage of 2, and inside the safety band.
C24_InitialLeverage ==
    (IsCall("__init__") /\ DGt(PoolValueUsd(GetState), Zero))
    => /\ debt_amount = DMul(PoolValueUsd(GetState), Dec(5, -1))
       /\ DebtRatio(GetState) = Dec(5, -1)
       /\ LeverageMultiplier(GetState) = Dec(2, 0)
       /\ IsHealthy(GetState)

\* The snapshot of a recorded ledger.
StateOf(l) ==
    PoolState(l.lbtc_reserve, l.lusdt_reserve, l.debt_amount, l.btc_price,
              l.lp_supply, l.yb_supply)

\* C25: with the target 0.5 and the tolerance 0.05,
\* detect_rebalance_opportunity returns None exactly when
\* |debt_ratio - 0.5| <= 0.05; otherwise it returns add_debt when
\* debt_ratio < 0.5 and remove_debt when debt_ratio > 0.5, with
\* debt_adjustment = |0.5 * pool_value - debt|; and it never changes the ledger.
C25_DetectOpportunity ==
    IsCall("detect_rebalance_opportunity")
    => LET s          == StateOf(last.pre)
           debt_ratio == DebtRatio(s)
           within     == DLe(DAbs(DSub(debt_ratio, Dec(5, -1))), Dec(5, -2))
       IN  /\ last.ok
           /\ (last.ret = NoOpportunity) <=> within
           /\ ~within
              => /\ DLt(debt_ratio, Dec(5, -1)) => last.ret.action = "add_debt"
                 /\ DGt(debt_ratio, Dec(5, -1)) => last.ret.action = "remove_debt"
                 /\ last.ret.debt_adjustment
                        = DAbs(DSub(DMul(Dec(5, -1), PoolValueUsd(s)), s.debt_amount))
           /\ Ledger = last.pre

\* The query is made on a ledger whose debt_ratio lies exactly on the edge of
\* the tolerance, 0.55, and returns None.
C25_Witness ==
    /\ IsCall("detect_rebalance_opportunity")
    /\ DebtRatio(GetState) = Dec(55, -2)
    /\ last.ret = NoOpportunity

\* C26: whenever detect_rebalance_opportunity returns an action with the
\* adjustment m, rebalance_via_flashloan in that direction by exactly m
\* succeeds and leaves debt_ratio equal to the target ratio 0.5.
C26_AdjustmentHitsTarget ==
    (IsCall("rebalance_via_flashloan") /\ "target_ratio" \in DOMAIN last.args)
    => /\ last.ok
       /\ DebtRatio(GetState) = last.args.target_ratio

\* C27: for a pool at price p0 and a market price p1 # p0 handed to
\* arbitrage_opportunity(market_price, tolerance), an amount is returned such
\* that quote_swap with that amount, of one of the two assets, gives a
\* price_after within the tolerance of p1.
C27_ArbitrageSolver ==
    (IsCall("arbitrage_opportunity") /\ last.args.market_price # Price)
    => /\ last.ret # NoOpportunity
       /\ \E a \in Assets :
              LET quote == QuoteSwap(a, last.ret.debt_adjustment)
                  p1    == last.args.market_price
              IN  /\ quote.ok
                  /\ DLe(DAbs(DSub(quote.price_after, p1)), DMul(p1, last.args.tolerance))

\* C28: the swap fee rate and the flash-loan fee rate of every ledger lie in
\* [0, 1): a construction with a rate outside it (negative basis points, or
\* 10000 and above) is rejected.
C28_RatesValidated ==
    /\ DLe(Zero, swap_fee) /\ DLt(swap_fee, One)
    /\ DLe(Zero, flash_fee) /\ DLt(flash_fee, One)

\* The ledger values l after execute_swap(args) run on them from start to end.
ApplySwap(l, args) ==
    LET quote == QuoteSwapOn(l, args.input_asset, args.amount_in)
    IN  IF ~quote.ok THEN l
        ELSE [l EXCEPT !.lbtc_reserve = quote.new_state.lbtc_reserve,
                       !.lusdt_reserve = quote.new_state.lusdt_reserve,
                       !.accumulated_fees =
                           [@ EXCEPT ![args.input_asset] = DAdd(@, quote.fee_paid)]]

\* The reserves and the accrued fees are those of l.
SameBooks(l) ==
    /\ lbtc_reserve = l.lbtc_reserve
    /\ lusdt_reserve = l.lusdt_reserve
    /\ accumulated_fees = l.accumulated_fees

\* Two threads have returned from execute_swap calls that both began on the
\* same reserves.
ConcurrentSwaps(t, u) ==
    /\ t # u
    /\ threads[t].pc = "done" /\ threads[t].op = "execute_swap"
    /\ threads[u].pc = "done" /\ threads[u].op = "execute_swap"
    /\ threads[t].pre.lbtc_reserve = threads[u].pre.lbtc_reserve
    /\ threads[t].pre.lusdt_reserve = threads[u].pre.lusdt_reserve

\* C29: when two execute_swap calls are made concurrently, the ledger they
\* leave is the one that running them one after the other, in one of the two
\* orders, leaves; and reserve_a * reserve_b is not lower than before them.
C29_SwapsSerializable ==
    \A t, u \in Threads :
        ConcurrentSwaps(t, u)
        => LET pre == threads[t].pre
           IN  /\ \/ SameBooks(ApplySwap(ApplySwap(pre, threads[t].args), threads[u].args))
                  \/ SameBooks(ApplySwap(ApplySwap(pre, threads[u].args), threads[t].args))
               /\ DGe(ExactProduct(lbtc_reserve, lusdt_reserve),
                      ExactProduct(pre.lbtc_reserve, pre.lusdt_reserve))

\* C30: whatever the interleaving of a cancel_flashloan(id) and a
\* complete_flashloan(id, ...) on the same outstanding loan, the cancel
\* completes normally, the completion succeeds or fails with unknown loan or
\* insufficient repayment and with nothing else, and the fee of the loan is
\* accrued at most once.
C30_CancelSettleRace ==
    \A t, u \in Threads :
        (/\ threads[t].op = "cancel_flashloan"
         /\ threads[u].op = "complete_flashloan"
         /\ threads[t].args.loan_id = threads[u].args.loan_id
         /\ threads[t].args.loan_id \in DOMAIN threads[t].pre.active_loans
         /\ threads[u].args.loan_id \in DOMAIN threads[u].pre.active_loans)
        => /\ threads[t].ok
           /\ threads[u].ok \/ threads[u].err \in {"Unknown loan", "Insufficient repayment"}
           /\ accruals[threads[u].args.loan_id] <= 1

\* The reserves and the debt a returned get_state holds are those of l.
Observes(th, l) ==
    /\ th.ret[1] = l.lbtc_reserve
    /\ th.ret[2] = l.lusdt_reserve
    /\ th.ret[3] = l.debt_amount

\* C31: a get_state that runs while another request executes a swap returns
\* reserve_a, reserve_b and debt of one ledger generation: all three as they
\* were before the swap, or all three as they are after it.
C31_ReaderSeesOneGeneration ==
    \A r, w \in Threads :
        (/\ threads[r].op = "get_state" /\ threads[r].pc = "done"
         /\ threads[w].op = "execute_swap")
        => \/ Observes(threads[r], threads[w].pre)
           \/ Observes(threads[r], ApplySwap(threads[w].pre, threads[w].args))

\* C32: a deposit_btc_for_yb that raises, for a non-positive amount or for a
\* resulting debt_ratio outside the safety band, leaves the reserves, the
\* debt, yb_supply and the holder balances as they were before the call.
C32_DepositAllOrNothing ==
    (IsCall("deposit_btc_for_yb") /\ ~last.ok)
    => /\ lbtc_reserve = last.pre.lbtc_reserve
       /\ lusdt_reserve = last.pre.lusdt_reserve
       /\ debt_amount = last.pre.debt_amount
       /\ yb_supply = last.pre.yb_supply
       /\ yb_holders = last.pre.yb_holders

\* C33: an apply_simulated_pset of type flashloan that fails, in one of its
\* swaps or in the settlement, leaves the reserves, the accrued fees and the
\* loan map as they were before the call.
C33_PsetAllOrNothing ==
    (IsCall("apply_simulated_pset") /\ last.args.type = "flashloan" /\ ~last.ok)
    => /\ lbtc_reserve = last.pre.lbtc_reserve
       /\ lusdt_reserve = last.pre.lusdt_reserve
       /\ accumulated_fees = last.pre.accumulated_fees
       /\ active_loans = last.pre.active_loans

\* The caller has started its rounds on a pool whose debt_ratio is in the
\* safety band.
StartedInBand ==
    /\ threads[Caller].op = "rebalance"
    /\ InBand(DebtRatio(StateOf(threads[Caller].pre)))

\* C34: from a pool whose debt_ratio is in the safety band, with nothing else
\* touching price or reserves, the rounds of detect_rebalance_opportunity
\* followed by rebalance_via_flashloan of the returned action and adjustment
\* never fail, and after finitely many of them detect_rebalance_opportunity
\* returns None.
C34_RebalancingConverges ==
    /\ [](StartedInBand => threads[Caller].ok)
    /\ (StartedInBand ~> (threads[Caller].pc = "done" /\ threads[Caller].ok))

\* C37: a settle_flashloan or a cancel_flashloan_reservation for a loan id
\* that has no outstanding reservation leaves every treasury balance
\* unchanged, so that the treasury is credited at most once per reservation.
C37_TreasuryCreditedOnce ==
    (/\ last.op \in {"settle_flashloan", "cancel_flashloan_reservation"}
     /\ last.args.loan_id \notin DOMAIN last.pre.outstanding_flashloans)
    => treasury = last.pre.treasury

\* C36: with the service's endpoints called one at a time, after every call
\* the loan ids the pool holds as active are the loan ids the treasury holds
\* as outstanding, and a flashloan_request whose reservation fails leaves the
\* loan it prepared out of the pool.
C36_LoansMatchReservations ==
    /\ DOMAIN active_loans = DOMAIN outstanding_flashloans
    /\ (last.op = "flashloan_request" /\ last.err = "Bitfinex liquidity unavailable")
           => /\ last.ret.loan_id \notin DOMAIN active_loans
              /\ active_loans = last.pre.active_loans

\* A second request fails its reservation while the first loan is still out.
C36_Witness ==
    /\ last.op = "flashloan_request"
    /\ last.err = "Bitfinex liquidity unavailable"
    /\ DOMAIN active_loans # {}
    /\ DOMAIN outstanding_flashloans # {}

\* The principals of the outstanding loans of an asset, added up exactly.
RECURSIVE Principals(_, _)
Principals(asset, ids) ==
    IF ids = {} THEN Zero
    ELSE LET i == CHOOSE j \in ids : TRUE
             rest == Principals(asset, ids \ {i})
         IN  IF active_loans[i].borrow_asset = asset
             THEN ExactSum(rest, active_loans[i].borrow_amount) ELSE rest

\* C38: in every reachable state the principals of all outstanding loans of
\* an asset add up to at most 30% of that asset's current reserve.
C38_AggregateLoanCap ==
    /\ DLe(Principals("LBTC", DOMAIN active_loans),
           ExactProduct(lbtc_reserve, Dec(3, -1)))
    /\ DLe(Principals("LUSDt", DOMAIN active_loans),
           ExactProduct(lusdt_reserve, Dec(3, -1)))

\* C35: whenever a step of an iteration of rebalance_loop raises, the first
\* iteration's prepare_flashloan included, the error is handled inside the
\* iteration and the loop goes on to the next poll.
C35_FailedAttemptNeverStopsBot ==
    /\ bot.pc = "poll"
    /\ (last.op = "rebalance_loop" /\ ~last.ok) => last.err # "UnboundLocalError"

\* C39: deposit_btc_for_yb(b) by a holder immediately followed by that
\* holder's withdraw_yb(b) returns at most b of BTC and leaves both reserves
\* no smaller than they were before the deposit, liquidity added by others
\* in the meantime included.
C39_DepositWithdrawBound ==
    (IsCall("withdraw_yb") /\ last.ok /\ "before" \in DOMAIN last.args)
    => /\ DLe(last.ret[1], last.args.yb_tokens)
       /\ DGe(lbtc_reserve, last.args.before.lbtc_reserve)
       /\ DGe(lusdt_reserve, last.args.before.lusdt_reserve)

\* C40: a successful withdraw_yb leaves debt_ratio exactly as it was and
\* never takes a pool that is inside the safety band outside it; a
\* withdraw_yb of more than the holder's balance or of a non-positive amount
\* fails with the ledger unchanged.
C40_WithdrawKeepsRatio ==
    IsCall("withdraw_yb")
    => /\ last.ok => /\ DebtRatio(GetState) = DebtRatio(last.pre)
                     /\ IsHealthy(last.pre) => IsHealthy(GetState)
       /\ (\/ DLe(last.args.yb_tokens, Zero)
           \/ DLt(last.pre.yb_holders[last.args.holder], last.args.yb_tokens))
              => ~last.ok /\ Ledger = last.pre

====
